---------------------------- MODULE Spec2Model ----------------------------
(***************************************************************************)
(* A model of the layered protocol stack of yunjin08/OSI-Model.            *)
(*                                                                         *)
(* Two variants of the stack live in the repository: the single file       *)
(* src/osi.py and the package src/layers driven by src/main.py.  Bytes are *)
(* naturals in 0..255, byte strings are sequences of them, a text is a     *)
(* sequence of Unicode code points.  32-bit check values are kept as the   *)
(* four big-endian bytes struct.pack('!I', v) produces, so that no value   *)
(* exceeds the range of the model checker's integers.                      *)
(***************************************************************************)
EXTENDS Naturals, Integers, Sequences, FiniteSets, TLC

(***************************************************************************)
(* Byte arithmetic                                                         *)
(***************************************************************************)
Byte == 0..255

RECURSIVE BitXor(_, _, _)
\* Python's a ^ b on two naturals below 2^n.
BitXor(a, b, n) ==
  IF n = 0 THEN 0
  ELSE ((a + b) % 2) + 2 * BitXor(a \div 2, b \div 2, n - 1)

\* a ^ b for bytes, tabulated once.
XorTable == [a \in Byte |-> [b \in Byte |-> BitXor(a, b, 8)]]

Xor(a, b) == XorTable[a][b]

\* data[i:j] of Python for 0 <= i, with j clipped to len(data); 0-based, j exclusive.
Slice(data, i, j) ==
  LET hi == IF j < Len(data) THEN j ELSE Len(data)
  IN  IF i >= hi THEN << >> ELSE SubSeq(data, i + 1, hi)

\* data[i:] of Python.
From(data, i) == Slice(data, i, Len(data))

\* struct.pack('!H', v): two bytes, big-endian.
PackH(v) == << v \div 256, v % 256 >>

\* struct.unpack('!H', b)[0].
UnpackH(b) == b[1] * 256 + b[2]

\* struct.pack('!I', v) for v < 2^31.
PackI(v) ==
  << v \div 16777216, (v \div 65536) % 256, (v \div 256) % 256, v % 256 >>

\* struct.pack('!Q', v) for v < 2^31: eight bytes, big-endian.
PackQ(v) == << 0, 0, 0, 0 >> \o PackI(v)

(***************************************************************************)
(* zlib.crc32: CRC-32 (reflected polynomial 0xEDB88320, initial value and  *)
(* final XOR 0xFFFFFFFF), table driven, on four big-endian bytes.          *)
(***************************************************************************)
Xor32(c, d) == << Xor(c[1], d[1]), Xor(c[2], d[2]), Xor(c[3], d[3]), Xor(c[4], d[4]) >>

Shr1(c) ==
  << c[1] \div 2,
     (c[1] % 2) * 128 + (c[2] \div 2),
     (c[2] % 2) * 128 + (c[3] \div 2),
     (c[3] % 2) * 128 + (c[4] \div 2) >>

CrcPoly == << 237, 184, 131, 32 >>

RECURSIVE CrcBits(_, _)
CrcBits(c, k) ==
  IF k = 0 THEN c
  ELSE CrcBits(IF c[4] % 2 = 1 THEN Xor32(CrcPoly, Shr1(c)) ELSE Shr1(c), k - 1)

CrcTable == [n \in Byte |-> CrcBits(<< 0, 0, 0, n >>, 8)]

\* One byte more: crc = table[(crc ^ b) & 0xFF] ^ (crc >> 8).
CrcUpdate(c, b) == Xor32(CrcTable[Xor(c[4], b)], << 0, c[1], c[2], c[3] >>)

RECURSIVE CrcRange(_, _, _, _)
\* The register c after the bytes data[lo..hi], first half first.
CrcRange(data, lo, hi, c) ==
  IF lo > hi THEN c
  ELSE IF lo = hi THEN CrcUpdate(c, data[lo])
  ELSE LET mid == (lo + hi) \div 2
           left == CrcRange(data, lo, mid, c)
       IN  CASE Len(left) = 4 -> CrcRange(data, mid + 1, hi, left)

\* DataLinkLayer._calculate_fcs followed by struct.pack('!I', ...).
calculate_fcs(data) ==
  Xor32(CrcRange(data, 1, Len(data), << 255, 255, 255, 255 >>),
        << 255, 255, 255, 255 >>)

(***************************************************************************)
(* zlib.adler32: a = 1 + sum of the bytes, b = sum of the successive a,    *)
(* both modulo 65521; the value is b * 65536 + a.                          *)
(***************************************************************************)
AdlerMod == 65521

\* One byte more: a += x, b += a.
AdlerUpdate(ab, x) ==
  << (ab[1] + x) % AdlerMod, (ab[2] + ((ab[1] + x) % AdlerMod)) % AdlerMod >>

RECURSIVE AdlerRange(_, _, _, _)
\* << a, b >> after the bytes data[lo..hi], first half first.
AdlerRange(data, lo, hi, ab) ==
  IF lo > hi THEN ab
  ELSE IF lo = hi THEN AdlerUpdate(ab, data[lo])
  ELSE LET mid == (lo + hi) \div 2
           left == AdlerRange(data, lo, mid, ab)
       IN  CASE Len(left) = 2 -> AdlerRange(data, mid + 1, hi, left)

\* TransportLayer._calculate_checksum followed by struct.pack('!I', ...).
calculate_checksum(data) ==
  LET ab == AdlerRange(data, 1, Len(data), << 1, 0 >>)
  IN  << ab[2] \div 256, ab[2] % 256, ab[1] \div 256, ab[1] % 256 >>

(***************************************************************************)
(* str.encode('utf-8') and bytes.decode('utf-8')                           *)
(***************************************************************************)
\* Python's None where a byte string or a text is expected.
None == << -1 >>

\* The UTF-8 bytes of one code point (surrogates D800..DFFF are not encodable
\* and are no part of any text of the model).
Utf8Char(c) ==
  IF c < 128 THEN << c >>
  ELSE IF c < 2048 THEN << 192 + (c \div 64), 128 + (c % 64) >>
  ELSE IF c < 65536
       THEN << 224 + (c \div 4096), 128 + ((c \div 64) % 64), 128 + (c % 64) >>
  ELSE << 240 + (c \div 262144), 128 + ((c \div 4096) % 64),
          128 + ((c \div 64) % 64), 128 + (c % 64) >>

RECURSIVE Utf8EncodeFrom(_, _)
Utf8EncodeFrom(text, i) ==
  IF i > Len(text) THEN << >>
  ELSE Utf8Char(text[i]) \o Utf8EncodeFrom(text, i + 1)

\* text.encode('utf-8')
Utf8Encode(text) == Utf8EncodeFrom(text, 1)

IsCont(data, i) == i <= Len(data) /\ data[i] >= 128 /\ data[i] <= 191

RECURSIVE Utf8DecodeFrom(_, _, _)
\* The strict decoder: overlong forms, surrogates, code points above
\* U+10FFFF and truncated sequences raise UnicodeDecodeError (None here).
Utf8DecodeFrom(data, i, acc) ==
  IF i > Len(data) THEN acc
  ELSE LET b == data[i]
           lo == IF b = 224 THEN 160 ELSE IF b = 240 THEN 144 ELSE 128
           hi == IF b = 237 THEN 159 ELSE IF b = 244 THEN 143 ELSE 191
           second == i + 1 <= Len(data) /\ data[i + 1] >= lo /\ data[i + 1] <= hi
       IN  IF b < 128 THEN Utf8DecodeFrom(data, i + 1, Append(acc, b))
           ELSE IF b >= 194 /\ b <= 223
                THEN IF second
                     THEN Utf8DecodeFrom(data, i + 2,
                            Append(acc, (b - 192) * 64 + (data[i + 1] - 128)))
                     ELSE None
           ELSE IF b >= 224 /\ b <= 239
                THEN IF second /\ IsCont(data, i + 2)
                     THEN Utf8DecodeFrom(data, i + 3,
                            Append(acc, (b - 224) * 4096 + (data[i + 1] - 128) * 64
                                        + (data[i + 2] - 128)))
                     ELSE None
           ELSE IF b >= 240 /\ b <= 244
                THEN IF second /\ IsCont(data, i + 2) /\ IsCont(data, i + 3)
                     THEN Utf8DecodeFrom(data, i + 4,
                            Append(acc, (b - 240) * 262144 + (data[i + 1] - 128) * 4096
                                        + (data[i + 2] - 128) * 64 + (data[i + 3] - 128)))
                     ELSE None
           ELSE None

\* data.decode('utf-8'), None for UnicodeDecodeError.
Utf8Decode(data) == Utf8DecodeFrom(data, 1, << >>)

(***************************************************************************)
(* zlib.compress and zlib.decompress.                                      *)
(*                                                                         *)
(* For an input of at most four bytes zlib emits the two header bytes      *)
(* 78 9C, one final block of fixed-Huffman literals closed by the          *)
(* end-of-block code, and the big-endian Adler-32 of the input (no match   *)
(* of length three can pay off in so short an input).  The decoder reads   *)
(* that form.  A stream that asks for a stored block, a dynamic block, a   *)
(* second block or a length code is reported as a failure: on the streams  *)
(* of the model (outputs of zlib_compress with at most one byte changed)   *)
(* zlib.decompress fails on each of those as well.                         *)
(***************************************************************************)
RECURSIVE Pow2(_)
Pow2(n) == IF n = 0 THEN 1 ELSE 2 * Pow2(n - 1)

\* The n bits of v, most significant first (the order of a Huffman code).
CodeBits(v, n) == [i \in 1..n |-> (v \div Pow2(n - i)) % 2]

\* The fixed Huffman code of a literal byte.
LitBits(x) == IF x < 144 THEN CodeBits(48 + x, 8) ELSE CodeBits(400 + (x - 144), 9)

RECURSIVE LitStream(_, _)
LitStream(data, i) ==
  IF i > Len(data) THEN << >> ELSE LitBits(data[i]) \o LitStream(data, i + 1)

\* Bits to bytes, least significant bit first, zero padded.
PackBits(bits) ==
  LET n == (Len(bits) + 7) \div 8
      bit(p) == IF p <= Len(bits) THEN bits[p] ELSE 0
  IN  [k \in 1..n |->
         bit(8 * k - 7) + 2 * bit(8 * k - 6) + 4 * bit(8 * k - 5) + 8 * bit(8 * k - 4)
         + 16 * bit(8 * k - 3) + 32 * bit(8 * k - 2) + 64 * bit(8 * k - 1)
         + 128 * bit(8 * k)]

\* zlib.compress(data)
zlib_compress(data) ==
  << 120, 156 >>
  \o PackBits(<< 1, 1, 0 >> \o LitStream(data, 1) \o << 0, 0, 0, 0, 0, 0, 0 >>)
  \o calculate_checksum(data)

\* Bit p (from 0) of the deflate data, which starts at the third byte.
BitAt(d, p) == (d[3 + (p \div 8)] \div Pow2(p % 8)) % 2

RECURSIVE ReadCode(_, _, _)
\* The value of the n bits from bit p on, most significant first.
ReadCode(d, p, n) ==
  IF n = 0 THEN 0 ELSE 2 * ReadCode(d, p, n - 1) + BitAt(d, p + n - 1)

InflateFail == [ok |-> FALSE, out |-> << >>, p |-> 0]

RECURSIVE InflateLiterals(_, _, _)
InflateLiterals(d, p, out) ==
  LET nbits == 8 * (Len(d) - 2)
  IN  IF p + 7 > nbits THEN InflateFail
      ELSE IF ReadCode(d, p, 7) = 0 THEN [ok |-> TRUE, out |-> out, p |-> p + 7]
      ELSE IF ReadCode(d, p, 7) < 24 THEN InflateFail
      ELSE IF p + 8 > nbits THEN InflateFail
      ELSE IF ReadCode(d, p, 8) >= 48 /\ ReadCode(d, p, 8) <= 191
           THEN InflateLiterals(d, p + 8, Append(out, ReadCode(d, p, 8) - 48))
      ELSE IF ReadCode(d, p, 8) <= 199 THEN InflateFail
      ELSE IF p + 9 > nbits THEN InflateFail
      ELSE InflateLiterals(d, p + 9, Append(out, ReadCode(d, p, 9) - 400 + 144))

\* zlib.decompress(d): [ok, out]; ok = FALSE stands for zlib.error.
zlib_decompress(d) ==
  IF Len(d) < 3 THEN InflateFail
  ELSE IF \/ d[1] % 16 # 8
          \/ d[1] \div 16 > 7
          \/ (d[1] * 256 + d[2]) % 31 # 0
          \/ (d[2] \div 32) % 2 # 0
       THEN InflateFail
  ELSE IF << BitAt(d, 0), BitAt(d, 1), BitAt(d, 2) >> # << 1, 1, 0 >> THEN InflateFail
  ELSE LET r == InflateLiterals(d, 3, << >>)
           q == 2 + ((r.p + 7) \div 8)
       IN  IF ~ r.ok THEN InflateFail
           ELSE IF Len(d) < q + 4 THEN InflateFail
           ELSE IF Slice(d, q, q + 4) # calculate_checksum(r.out) THEN InflateFail
           ELSE r

(***************************************************************************)
(* The stages.  Each process_outgoing / process_incoming takes the stage   *)
(* object (self) and the data.  A stage whose call changes self returns    *)
(* [self, out]; the others return the bytes.  b'' is << >>.                *)
(***************************************************************************)
PREAMBLE == 170

\* The largest value struct.pack('!H', n) packs; above it struct.error is
\* raised.
MaxFrameLength == 65535

\* The outcome of a call that raised struct.error.
StructError == << -2 >>

\* PhysicalLayer.process_outgoing (struct.pack('!H', n) raises above 65535).
Physical_process_outgoing(data) ==
  IF Len(data) > MaxFrameLength THEN StructError
  ELSE << PREAMBLE >> \o PackH(Len(data)) \o data

\* PhysicalLayer.process_incoming
Physical_process_incoming(data) ==
  IF Len(data) < 3 THEN None
  ELSE IF data[1] # PREAMBLE THEN None
  ELSE IF Len(data) < UnpackH(Slice(data, 1, 3)) + 3 THEN None
  ELSE Slice(data, 3, 3 + UnpackH(Slice(data, 1, 3)))

\* DataLinkLayer.process_outgoing
DataLink_process_outgoing(self, data) ==
  LET header == self.src_mac \o self.dst_mac
  IN  header \o data \o calculate_fcs(header \o data)

\* Mutant: the destination field is compared with the peer's address.
DataLink_process_incoming_peer(self, data) ==
  IF Len(data) < 16 THEN << >>
  ELSE LET dst_mac == Slice(data, 6, 12)
           payload == Slice(data, 12, Len(data) - 4)
           fcs     == From(data, Len(data) - 4)
       IN  IF dst_mac # self.dst_mac THEN << >>
           ELSE IF calculate_fcs(Slice(data, 0, Len(data) - 4)) # fcs THEN << >>
           ELSE payload

\* Mutant: the FCS comparison is left out.
DataLink_process_incoming_no_fcs(self, data) ==
  IF Len(data) < 16 THEN << >>
  ELSE LET dst_mac == Slice(data, 6, 12)
           payload == Slice(data, 12, Len(data) - 4)
       IN  IF dst_mac # self.src_mac THEN << >>
           ELSE payload

\* DataLinkLayer.process_incoming
DataLink_process_incoming(self, data) ==
  IF Len(data) < 16 THEN << >>
  ELSE LET dst_mac == Slice(data, 6, 12)
           payload == Slice(data, 12, Len(data) - 4)
           fcs     == From(data, Len(data) - 4)
       IN  IF dst_mac # self.src_mac THEN << >>
           ELSE IF calculate_fcs(Slice(data, 0, Len(data) - 4)) # fcs THEN << >>
           ELSE payload

\* NetworkLayer.process_outgoing (both variants): version 4, IHL 5, then the TTL.
Network_process_outgoing(self, data) ==
  << 4 * 16 + 5, self.ttl >> \o self.src_ip \o self.dst_ip \o data

\* NetworkLayer.process_incoming of src/osi.py
Network_process_incoming_osi(self, data) ==
  IF Len(data) < 7 THEN << >>
  ELSE IF data[1] \div 16 # 4 THEN << >>
  ELSE From(data, 10)

\* Mutant: the destination field is compared with the peer's address.
Network_process_incoming_pkg_peer(self, data) ==
  IF Len(data) < 10 THEN << >>
  ELSE IF data[1] \div 16 # 4 THEN << >>
  ELSE IF Slice(data, 6, 10) # self.dst_ip THEN << >>
  ELSE From(data, 10)

\* NetworkLayer.process_incoming of src/layers/network.py
Network_process_incoming_pkg(self, data) ==
  IF Len(data) < 10 THEN << >>
  ELSE IF data[1] \div 16 # 4 THEN << >>
  ELSE IF Slice(data, 6, 10) # self.src_ip THEN << >>
  ELSE From(data, 10)

SeqModulus == 65536

\* Mutant: the outbound counter wraps after one byte.
Transport_process_outgoing_byte(self, data) ==
  LET seq       == (self.seq + 1) % (2 ^ 8)
      seq_bytes == PackH(seq)
      window    == PackH(self.window_size)
  IN  [self |-> [self EXCEPT !.seq = seq],
       out  |-> seq_bytes \o window
                \o calculate_checksum(seq_bytes \o window \o data) \o data]

\* TransportLayer.process_outgoing
Transport_process_outgoing(self, data) ==
  LET seq       == (self.seq + 1) % SeqModulus
      seq_bytes == PackH(seq)
      window    == PackH(self.window_size)
  IN  [self |-> [self EXCEPT !.seq = seq],
       out  |-> seq_bytes \o window
                \o calculate_checksum(seq_bytes \o window \o data) \o data]

\* Mutant: a segment ahead of the expected one is accepted too (gaps are
\* tolerated, duplicates are not).
Transport_process_incoming_gap(self, data) ==
  IF Len(data) < 8 THEN [self |-> self, out |-> << >>]
  ELSE LET seq      == UnpackH(Slice(data, 0, 2))
           checksum == Slice(data, 4, 8)
           payload  == From(data, 8)
       IN  IF calculate_checksum(Slice(data, 0, 4) \o payload) # checksum
           THEN [self |-> self, out |-> << >>]
           ELSE IF seq < self.expected_seq
           THEN [self |-> self, out |-> << >>]
           ELSE [self |-> [self EXCEPT !.expected_seq = (self.expected_seq + 1) % SeqModulus],
                 out  |-> payload]

\* Mutant: the sequence number is looked at first and the counter moved on
\* before the checksum is verified.
Transport_process_incoming_eager(self, data) ==
  IF Len(data) < 8 THEN [self |-> self, out |-> << >>]
  ELSE LET seq      == UnpackH(Slice(data, 0, 2))
           checksum == Slice(data, 4, 8)
           payload  == From(data, 8)
           moved    == [self EXCEPT !.expected_seq = (self.expected_seq + 1) % SeqModulus]
       IN  IF seq # self.expected_seq
           THEN [self |-> self, out |-> << >>]
           ELSE IF calculate_checksum(Slice(data, 0, 4) \o payload) # checksum
           THEN [self |-> moved, out |-> << >>]
           ELSE [self |-> moved, out |-> payload]

\* TransportLayer.process_incoming
Transport_process_incoming(self, data) ==
  IF Len(data) < 8 THEN [self |-> self, out |-> << >>]
  ELSE LET seq      == UnpackH(Slice(data, 0, 2))
           checksum == Slice(data, 4, 8)
           payload  == From(data, 8)
       IN  IF calculate_checksum(Slice(data, 0, 4) \o payload) # checksum
           THEN [self |-> self, out |-> << >>]
           ELSE IF seq # self.expected_seq
           THEN [self |-> self, out |-> << >>]
           ELSE [self |-> [self EXCEPT !.expected_seq = (self.expected_seq + 1) % SeqModulus],
                 out  |-> payload]

\* TransportLayer.process_incoming, the check that turns the segment away:
\* "short" (return b'' at the length test), "checksum" (prints "Transport
\* checksum failed"), "sequence" (prints "Unexpected sequence number"), or
\* "none" when the payload is returned.
Transport_rejection(self, data) ==
  IF Len(data) < 8 THEN "short"
  ELSE IF calculate_checksum(Slice(data, 0, 4) \o From(data, 8)) # Slice(data, 4, 8)
  THEN "checksum"
  ELSE IF UnpackH(Slice(data, 0, 2)) # self.expected_seq THEN "sequence"
  ELSE "none"

\* SessionLayer.process_outgoing
Session_process_outgoing(self, data) ==
  [self |-> [self EXCEPT !.sequence = self.sequence + 1],
   out  |-> PackI(self.session_id) \o PackQ(self.sequence + 1) \o data]

\* Mutant: only the low two bytes of the session id are compared.
Session_process_incoming_low(self, data) ==
  IF Len(data) < 12 THEN << >>
  ELSE IF Slice(data, 2, 4) # Slice(PackI(self.session_id), 2, 4) THEN << >>
  ELSE From(data, 12)

\* Mutant: the counter of the header is compared with the stage's own.
Session_process_incoming_strict(self, data) ==
  IF Len(data) < 12 THEN << >>
  ELSE IF Slice(data, 0, 4) # PackI(self.session_id) THEN << >>
  ELSE IF Slice(data, 4, 12) # PackQ(self.sequence + 1) THEN << >>
  ELSE From(data, 12)

\* SessionLayer.process_incoming
Session_process_incoming(self, data) ==
  IF Len(data) < 12 THEN << >>
  ELSE IF Slice(data, 0, 4) # PackI(self.session_id) THEN << >>
  ELSE From(data, 12)

\* bytes([b ^ key[i % len(key)] for i, b in enumerate(data)])
XorKey(key, data) ==
  [i \in 1..Len(data) |-> Xor(data[i], key[((i - 1) % Len(key)) + 1])]

\* PresentationLayer.process_outgoing
Presentation_process_outgoing(self, data) == XorKey(self.key, zlib_compress(data))

\* Mutant: the key is applied from its second byte on.
Presentation_process_incoming_shifted(self, data) ==
  LET r == zlib_decompress(XorKey(Tail(self.key) \o << Head(self.key) >>, data))
  IN  IF r.ok THEN r.out ELSE << >>

\* PresentationLayer.process_incoming
Presentation_process_incoming(self, data) ==
  LET r == zlib_decompress(XorKey(self.key, data))
  IN  IF r.ok THEN r.out ELSE << >>

\* ApplicationLayer.process_outgoing of a str.
Application_process_outgoing(self, data) == Utf8Encode(data)

\* ApplicationLayer.process_incoming
Application_process_incoming(self, data) ==
  IF Utf8Decode(data) = None THEN [self |-> self, out |-> None]
  ELSE [self |-> [self EXCEPT !.received_data = Utf8Decode(data)],
        out  |-> Utf8Decode(data)]

(***************************************************************************)
(* The stacks.  A stack is the six stage objects above the Physical layer, *)
(* linked in the order 2 DataLink, 3 Network, 4 Transport, 5 Session,      *)
(* 6 Presentation, 7 Application; 1 is the Physical layer.                 *)
(***************************************************************************)
Variants == {"osi", "pkg"}

Sides == {"client", "server"}

Peer(side) == IF side = "client" THEN "server" ELSE "client"

NewStack(src_mac, dst_mac, src_ip, dst_ip) ==
  [datalink     |-> [src_mac |-> src_mac, dst_mac |-> dst_mac],
   network      |-> [src_ip |-> src_ip, dst_ip |-> dst_ip, ttl |-> 64],
   transport    |-> [seq |-> 0, expected_seq |-> 1, window_size |-> 8],
   session      |-> [session_id |-> 1234, is_active |-> FALSE, sequence |-> 0],
   presentation |-> [key |-> << 115, 101, 99, 114, 101, 116 >>],
   application  |-> [received_data |-> None]]

\* The addresses of src/osi.py.
OsiServerMac == << 17, 34, 51, 68, 85, 102 >>
OsiClientMac == << 119, 136, 153, 170, 187, 204 >>
OsiServerIp == << 10, 0, 0, 1 >>
OsiClientIp == << 10, 0, 0, 2 >>

\* The addresses src/utils.py derives for src/main.py from the host's own
\* (here a host with MAC 11:22:33:44:55:66 and the fallback IP 192.168.0.1).
LocalMac == << 17, 34, 51, 68, 85, 102 >>
LocalIp == << 192, 168, 0, 1 >>

\* bytes([local_mac[0] | 0x02]) + local_mac[1:]
DerivedClientMac(local_mac) ==
  << IF (local_mac[1] \div 2) % 2 = 1 THEN local_mac[1] ELSE local_mac[1] + 2 >>
  \o Tail(local_mac)

\* subnet_prefix + bytes([client_host])
DerivedClientIp(local_ip) ==
  LET client_host == (local_ip[4] % 254) + 1
  IN  SubSeq(local_ip, 1, 3)
      \o << IF client_host = local_ip[4] THEN (client_host % 254) + 1 ELSE client_host >>

create_server(variant) ==
  IF variant = "osi"
  THEN NewStack(OsiServerMac, OsiClientMac, OsiServerIp, OsiClientIp)
  ELSE NewStack(LocalMac, DerivedClientMac(LocalMac), LocalIp, DerivedClientIp(LocalIp))

create_client(variant) ==
  IF variant = "osi"
  THEN NewStack(OsiClientMac, OsiServerMac, OsiClientIp, OsiServerIp)
  ELSE NewStack(DerivedClientMac(LocalMac), LocalMac, DerivedClientIp(LocalIp), LocalIp)

create(variant, side) ==
  IF side = "server" THEN create_server(variant) ELSE create_client(variant)

\* process_outgoing of stage k of stack st: [st, out].
process_outgoing(k, st, data) ==
  CASE k = 7 -> [st |-> st, out |-> Application_process_outgoing(st.application, data)]
    [] k = 6 -> [st |-> st, out |-> Presentation_process_outgoing(st.presentation, data)]
    [] k = 5 -> [st  |-> [st EXCEPT !.session = Session_process_outgoing(@, data).self],
                 out |-> Session_process_outgoing(st.session, data).out]
    [] k = 4 -> [st  |-> [st EXCEPT !.transport = Transport_process_outgoing(@, data).self],
                 out |-> Transport_process_outgoing(st.transport, data).out]
    [] k = 3 -> [st |-> st, out |-> Network_process_outgoing(st.network, data)]
    [] k = 2 -> [st |-> st, out |-> DataLink_process_outgoing(st.datalink, data)]

\* process_incoming of stage k of stack st: [st, out].
process_incoming(variant, k, st, data) ==
  CASE k = 2 -> [st |-> st, out |-> DataLink_process_incoming(st.datalink, data)]
    [] k = 3 -> [st  |-> st,
                 out |-> IF variant = "osi"
                         THEN Network_process_incoming_osi(st.network, data)
                         ELSE Network_process_incoming_pkg(st.network, data)]
    [] k = 4 -> [st  |-> [st EXCEPT !.transport = Transport_process_incoming(@, data).self],
                 out |-> Transport_process_incoming(st.transport, data).out]
    [] k = 5 -> [st |-> st, out |-> Session_process_incoming(st.session, data)]
    [] k = 6 -> [st |-> st, out |-> Presentation_process_incoming(st.presentation, data)]
    [] k = 7 -> [st  |-> [st EXCEPT !.application =
                                       Application_process_incoming(@, data).self],
                 out |-> Application_process_incoming(st.application, data).out]

RECURSIVE send_down(_, _, _)
\* Layer.send_down from stage k down to stage 2: the stack afterwards and the
\* data handed to PhysicalLayer.send_down.
send_down(k, st, data) ==
  LET r == process_outgoing(k, st, data)
  IN  IF k = 2 THEN r ELSE send_down(k - 1, r.st, r.out)

RECURSIVE receive_up_osi_pass(_, _, _, _)
\* Mutant: when the processing of a stage failed, the unprocessed data is
\* handed to the upper layer.
receive_up_osi_pass(k, st, data, calls) ==
  IF data = None \/ data = << >> THEN [st |-> st, calls |-> calls]
  ELSE IF k = 1 THEN receive_up_osi_pass(2, st, data, calls)
  ELSE LET r == process_incoming("osi", k, st, data)
       IN  IF k = 7 THEN [st |-> r.st, calls |-> Append(calls, k)]
           ELSE IF r.out = None \/ r.out = << >>
           THEN receive_up_osi_pass(k + 1, r.st, data, Append(calls, k))
           ELSE receive_up_osi_pass(k + 1, r.st, r.out, Append(calls, k))

RECURSIVE receive_up_osi(_, _, _, _)
\* Layer.receive_up of src/osi.py at stage k: the stack afterwards and the
\* stages whose process_incoming was invoked, in order.
receive_up_osi(k, st, data, calls) ==
  IF data = None \/ data = << >> THEN [st |-> st, calls |-> calls]
  ELSE IF k = 1 THEN receive_up_osi(2, st, data, calls)
  ELSE LET r == process_incoming("osi", k, st, data)
       IN  IF r.out = None \/ r.out = << >>
           THEN [st |-> r.st, calls |-> Append(calls, k)]
           ELSE IF k < 7
           THEN receive_up_osi(k + 1, r.st, r.out, Append(calls, k))
           ELSE [st |-> r.st, calls |-> Append(calls, k)]

RECURSIVE receive_up_pkg(_, _, _, _)
\* Layer.receive_up of src/layers/layer.py: it hands the data to the upper
\* layer and returns; the statements after the return are never reached.
receive_up_pkg(k, st, data, calls) ==
  IF data = None \/ data = << >> THEN [st |-> st, calls |-> calls]
  ELSE IF k < 7 THEN receive_up_pkg(k + 1, st, data, calls)
  ELSE [st |-> st, calls |-> calls]

receive_up(variant, k, st, data, calls) ==
  IF variant = "osi" THEN receive_up_osi(k, st, data, calls)
  ELSE receive_up_pkg(k, st, data, calls)

(***************************************************************************)
(* PhysicalLayer.listen: the inner loop over the receive buffer.           *)
(***************************************************************************)
\* Mutant: the scan takes the last occurrence of b.
FindFrom_last(buffer, b, i) ==
  LET hits == {j \in i..Len(buffer) : buffer[j] = b}
  IN  IF hits = {} THEN -1
      ELSE (CHOOSE j \in hits : \A h \in hits : h <= j) - 1

RECURSIVE FindFrom(_, _, _)
\* buffer.find(b): the 0-based offset of the first b, -1 when there is none.
FindFrom(buffer, b, i) ==
  IF i > Len(buffer) THEN -1
  ELSE IF buffer[i] = b THEN i - 1
  ELSE FindFrom(buffer, b, i + 1)

RECURSIVE ExtractFrames_partial(_, _)
\* Mutant: a frame whose bytes have not all arrived is taken as it is.
ExtractFrames_partial(buffer, frames) ==
  IF Len(buffer) < 3 THEN [buffer |-> buffer, frames |-> frames]
  ELSE LET preamble_pos == FindFrom(buffer, PREAMBLE, 1)
           synced == IF preamble_pos > 0 THEN From(buffer, preamble_pos) ELSE buffer
           total_length == UnpackH(Slice(synced, 1, 3)) + 3
       IN  IF preamble_pos = -1 THEN [buffer |-> << >>, frames |-> frames]
           ELSE IF Len(synced) < 3 THEN [buffer |-> synced, frames |-> frames]
           ELSE IF Len(synced) < total_length
           THEN [buffer |-> << >>, frames |-> Append(frames, synced)]
           ELSE ExtractFrames_partial(From(synced, total_length),
                                      Append(frames, Slice(synced, 0, total_length)))

RECURSIVE ExtractFrames_keep(_, _)
\* Mutant: a buffer without the preamble value is kept for the next read.
ExtractFrames_keep(buffer, frames) ==
  IF Len(buffer) < 3 THEN [buffer |-> buffer, frames |-> frames]
  ELSE LET preamble_pos == FindFrom(buffer, PREAMBLE, 1)
           synced == IF preamble_pos > 0 THEN From(buffer, preamble_pos) ELSE buffer
           total_length == UnpackH(Slice(synced, 1, 3)) + 3
       IN  IF preamble_pos = -1 THEN [buffer |-> buffer, frames |-> frames]
           ELSE IF Len(synced) < 3 THEN [buffer |-> synced, frames |-> frames]
           ELSE IF Len(synced) < total_length THEN [buffer |-> synced, frames |-> frames]
           ELSE ExtractFrames_keep(From(synced, total_length),
                                   Append(frames, Slice(synced, 0, total_length)))

RECURSIVE ExtractFrames(_, _)
\* while len(buffer) >= 3: ... ; the buffer left and the complete frames
\* removed from its front, in order.
ExtractFrames(buffer, frames) ==
  IF Len(buffer) < 3 THEN [buffer |-> buffer, frames |-> frames]
  ELSE LET preamble_pos == FindFrom(buffer, PREAMBLE, 1)
           synced == IF preamble_pos > 0 THEN From(buffer, preamble_pos) ELSE buffer
           total_length == UnpackH(Slice(synced, 1, 3)) + 3
       IN  IF preamble_pos = -1 THEN [buffer |-> << >>, frames |-> frames]
           ELSE IF Len(synced) < 3 THEN [buffer |-> synced, frames |-> frames]
           ELSE IF Len(synced) < total_length THEN [buffer |-> synced, frames |-> frames]
           ELSE ExtractFrames(From(synced, total_length),
                              Append(frames, Slice(synced, 0, total_length)))

RECURSIVE DispatchedPayloads_lifo(_, _)
\* Mutant: the payloads of one read are handed up last frame first.
DispatchedPayloads_lifo(frames, i) ==
  IF i > Len(frames) THEN << >>
  ELSE LET processed_data == Physical_process_incoming(frames[i])
       IN  DispatchedPayloads_lifo(frames, i + 1)
           \o (IF processed_data = None \/ processed_data = << >>
               THEN << >> ELSE << processed_data >>)

RECURSIVE DispatchedPayloads(_, _)
\* processed_data = self.process_incoming(frame); if processed_data: ... ,
\* for the frames from the i-th on: the payloads handed to receive_up.
DispatchedPayloads(frames, i) ==
  IF i > Len(frames) THEN << >>
  ELSE LET processed_data == Physical_process_incoming(frames[i])
       IN  (IF processed_data = None \/ processed_data = << >>
            THEN << >> ELSE << processed_data >>)
           \o DispatchedPayloads(frames, i + 1)

RECURSIVE DeliverAll(_, _, _, _)
\* self.receive_up(processed_data) for each payload in turn: the stack
\* afterwards and the process_incoming calls of the last payload.
DeliverAll(variant, st, payloads, calls) ==
  IF payloads = << >> THEN [st |-> st, calls |-> calls]
  ELSE LET r == receive_up(variant, 1, st, Head(payloads), << >>)
       IN  DeliverAll(variant, r.st, Tail(payloads), r.calls)

(***************************************************************************)
(* State                                                                   *)
(***************************************************************************)
VARIABLES
  variant,     \* which code the two stacks are built from
  stack,       \* per side: the stage objects of its stack
  wire,        \* per side: the bytes written by the peer and not yet read
  buffer,      \* per side: listen's receive buffer
  running,     \* per side: the running flag (set: connected and not cleaned up)
  extracted,   \* per side: history of the frames listen removed from the buffer
  dispatched,  \* per side: history of the payloads listen handed to receive_up
  calls,       \* per side: the process_incoming calls made for the last payload
  sent,        \* per side: history of the messages whose frame reached the socket
  nreads,      \* history: the number of reads of the framing runs
  input,       \* the input a run was started from (framing and single-stage runs)
  output,      \* the result of the stage applied to input (single-stage runs)
  driver,      \* per side: the position of start and listen, the socket and
               \* the connection of its PhysicalLayer
  callers      \* per calling thread: its position inside process_outgoing

vars == << variant, stack, wire, buffer, running, extracted, dispatched, calls,
           sent, nreads, input, output, driver, callers >>

\* Bounds of the end-to-end runs.
MaxSends == 2
MaxTextLen == 1

\* conn.recv(1024)
RecvSize == 1024

\* In the end-to-end runs a read returns either everything that is
\* available (up to RecvSize) or a fragment of this size; the framing runs
\* below split the stream at every offset.
FragmentSize == 20

\* Code points the texts are made of: A, e-acute (two bytes), feminine
\* ordinal (two bytes, the second one the preamble value).
Chars == {65, 233, 170}

RECURSIVE SeqsUpTo(_, _)
\* The sequences over S of length at most n.
SeqsUpTo(S, n) ==
  IF n = 0 THEN {<< >>}
  ELSE SeqsUpTo(S, n - 1) \cup {Append(q, x) : q \in SeqsUpTo(S, n - 1), x \in S}

Texts == SeqsUpTo(Chars, MaxTextLen)

PerSide(v) == [side \in Sides |-> v]

Min(a, b) == IF a < b THEN a ELSE b

\* PhysicalLayer.__init__: a socket is made, there is no connection and no
\* listen thread yet.
\* pc is the position of start and, once the thread runs, of listen;
\* attempt, sockets and slept count the connect attempts made, the socket
\* objects created and the seconds slept by start; raised is the exception
\* start ended with.  stop, last_read and send_failures are history: how
\* the running flag was cleared from outside, how the last recv ended, how
\* many send_down calls raised.
NewDriver ==
  [pc |-> "created", attempt |-> 0, socket |-> "open", sockets |-> 1,
   conn |-> "none", slept |-> 0, listen_thread |-> FALSE, raised |-> "none",
   stop |-> "none", last_read |-> "none", send_failures |-> 0]

\* The driver after a start that went well: the client connected at its
\* first attempt, the server accepted, the listen thread is at its loop
\* head.
Connected(side) ==
  [NewDriver EXCEPT !.pc = "listening",
                    !.attempt = IF side = "client" THEN 1 ELSE 0,
                    !.conn = IF side = "server" THEN "open" ELSE "none",
                    !.listen_thread = TRUE]

\* What cleanup does to the socket and the connection (it clears the
\* running flag as well).
cleanup(d) ==
  [d EXCEPT !.socket = "closed",
            !.conn = IF @ = "none" THEN "none" ELSE "closed"]

\* No thread is inside process_outgoing.
NoCallers == << >>

\* Both stacks built, started and connected.
Init ==
  /\ variant \in Variants
  /\ stack = [side \in Sides |-> create(variant, side)]
  /\ wire = PerSide(<< >>)
  /\ buffer = PerSide(<< >>)
  /\ running = PerSide(TRUE)
  /\ extracted = PerSide(<< >>)
  /\ dispatched = PerSide(<< >>)
  /\ calls = PerSide(<< >>)
  /\ sent = PerSide(<< >>)
  /\ nreads = 0
  /\ input = << >>
  /\ output = << >>
  /\ driver = [side \in Sides |-> Connected(side)]
  /\ callers = NoCallers

\* application.send_down(text) on a stack whose connection is up: every stage
\* encodes, PhysicalLayer.send_down frames the result and writes it with one
\* sendall.
Send(side, text) ==
  /\ stack["client"].transport.seq + stack["server"].transport.seq < MaxSends
  /\ running[side]
  /\ running[Peer(side)]
  /\ LET r == send_down(7, stack[side], text)
     IN  /\ stack' = [stack EXCEPT ![side] = r.st]
         /\ wire' = [wire EXCEPT ![Peer(side)] = @ \o Physical_process_outgoing(r.out)]
  /\ sent' = [sent EXCEPT ![side] = Append(@, text)]
  /\ UNCHANGED << variant, buffer, running, extracted, dispatched, calls, nreads,
                  input, output, driver, callers >>

\* application.send_down(text) when the running flag is clear: the stages
\* above have encoded (their counters moved), PhysicalLayer.send_down raises
\* "Connection is closed", calls cleanup and re-raises.
SendClosed(side, text) ==
  /\ stack["client"].transport.seq + stack["server"].transport.seq < MaxSends
  /\ ~ running[side]
  /\ stack' = [stack EXCEPT ![side] = send_down(7, stack[side], text).st]
  /\ driver' = [driver EXCEPT ![side] = cleanup(@)]
  /\ UNCHANGED << variant, wire, buffer, running, extracted, dispatched, calls,
                  sent, nreads, input, output, callers >>

\* application.send_down(text) after the peer closed the connection: sendall
\* either still succeeds (the bytes are lost) or raises, and then
\* PhysicalLayer.send_down calls cleanup and re-raises.
SendToClosedPeer(side, text, raises) ==
  /\ stack["client"].transport.seq + stack["server"].transport.seq < MaxSends
  /\ running[side]
  /\ ~ running[Peer(side)]
  /\ stack' = [stack EXCEPT ![side] = send_down(7, stack[side], text).st]
  /\ running' = [running EXCEPT ![side] = ~ raises]
  /\ driver' = [driver EXCEPT ![side] = IF raises THEN cleanup(@) ELSE @]
  /\ UNCHANGED << variant, wire, buffer, extracted, dispatched, calls, sent,
                  nreads, input, output, callers >>

\* One turn of listen's outer loop on a read of n bytes: the chunk is
\* appended to the buffer, every complete frame is removed and its payload
\* sent up the stack.
ReadChunk(side, n) ==
  /\ n >= 1
  /\ n <= Min(Len(wire[side]), RecvSize)
  /\ LET e == ExtractFrames(buffer[side] \o SubSeq(wire[side], 1, n), << >>)
         payloads == DispatchedPayloads(e.frames, 1)
         r == DeliverAll(variant, stack[side], payloads, calls[side])
     IN  /\ wire' = [wire EXCEPT ![side] = From(@, n)]
         /\ buffer' = [buffer EXCEPT ![side] = e.buffer]
         /\ extracted' = [extracted EXCEPT ![side] = @ \o e.frames]
         /\ dispatched' = [dispatched EXCEPT ![side] = @ \o payloads]
         /\ stack' = [stack EXCEPT ![side] = r.st]
         /\ calls' = [calls EXCEPT ![side] = r.calls]
  /\ UNCHANGED << variant, running, sent, input, output, callers >>

\* One turn of the loop taken as one step: the head finds the flag set, the
\* read returns n bytes, the thread is back at the head.
ListenChunk(side, n) ==
  /\ running[side]
  /\ ReadChunk(side, n)
  /\ UNCHANGED driver

Recv(side, n) == ListenChunk(side, n) /\ UNCHANGED nreads

\* recv returns b'' once the peer has closed and every byte was read:
\* listen leaves its loop and calls cleanup.
RecvEOF(side) ==
  /\ running[side]
  /\ ~ running[Peer(side)]
  /\ wire[side] = << >>
  /\ running' = [running EXCEPT ![side] = FALSE]
  /\ driver' = [driver EXCEPT ![side] = [cleanup(@) EXCEPT !.pc = "exited"]]
  /\ UNCHANGED << variant, stack, wire, buffer, extracted, dispatched, calls,
                  sent, nreads, input, output, callers >>

\* cleanup called by the owner of the stack (main's signal handler and
\* finally clause): the flag is cleared, the connection and socket closed.
Cleanup(side) ==
  /\ running[side]
  /\ running' = [running EXCEPT ![side] = FALSE]
  /\ driver' = [driver EXCEPT ![side] = cleanup(@)]
  /\ UNCHANGED << variant, stack, wire, buffer, extracted, dispatched, calls,
                  sent, nreads, input, output, callers >>

Next ==
  \/ \E side \in Sides, text \in Texts : Send(side, text)
  \/ \E side \in Sides, text \in Texts : SendClosed(side, text)
  \/ \E side \in Sides, text \in Texts, raises \in BOOLEAN :
       SendToClosedPeer(side, text, raises)
  \/ \E side \in Sides :
       \E n \in {Min(FragmentSize, Len(wire[side])), Min(RecvSize, Len(wire[side]))} :
         Recv(side, n)
  \/ \E side \in Sides : RecvEOF(side)
  \/ \E side \in Sides : Cleanup(side)

Spec == Init /\ [][Next]_vars


\* The last message side wrote to the socket has been read whole by the
\* peer's listen.
LastRead(side) ==
  /\ sent[side] # << >>
  /\ wire[Peer(side)] = << >>
  /\ buffer[Peer(side)] = << >>

Last(seq) == seq[Len(seq)]

\* C1: in the stacks of src/osi.py, once the frame of a message M sent by
\* one side has been read by the peer's receive loop, the peer's
\* Application stage holds exactly M.
C1_RoundTrip ==
  variant = "osi" =>
    \A side \in Sides :
      LastRead(side) => stack[Peer(side)].application.received_data = Last(sent[side])

\* C2: in the stacks of src/layers, once the frame of a non-empty message
\* has been read by the peer's listen, process_incoming has been applied by
\* DataLink, Network, Transport, Session, Presentation and Application in
\* this order and the Application stage holds the message.
C2_UpwardChain ==
  variant = "pkg" =>
    \A side \in Sides :
      (LastRead(side) /\ Last(sent[side]) # << >>) =>
        /\ calls[Peer(side)] = << 2, 3, 4, 5, 6, 7 >>
        /\ stack[Peer(side)].application.received_data = Last(sent[side])

(***************************************************************************)
(* Framing runs: listen fed a byte stream (noise, then frames) that the    *)
(* socket hands over in reads of every possible size.                      *)
(***************************************************************************)
MaxNoise == 3
MaxPayload == 1
MaxFrames == 2

\* Bytes the noise is made of (the preamble value among them) and bytes the
\* payloads are made of.
NoiseBytes == {0, 170}
PayloadBytes == {1, 170}

RECURSIVE Frames(_)
\* The frames PhysicalLayer.process_outgoing builds for payloads, concatenated.
Frames(payloads) ==
  IF payloads = << >> THEN << >>
  ELSE Physical_process_outgoing(Head(payloads)) \o Frames(Tail(payloads))

FramerInputs ==
  [noise    : SeqsUpTo(NoiseBytes, MaxNoise),
   payloads : SeqsUpTo(SeqsUpTo(PayloadBytes, MaxPayload), MaxFrames)]

FramerInit ==
  /\ variant \in Variants
  /\ input \in FramerInputs
  /\ stack = [side \in Sides |-> create(variant, side)]
  /\ wire = [side \in Sides |->
               IF side = "server" THEN input.noise \o Frames(input.payloads) ELSE << >>]
  /\ buffer = PerSide(<< >>)
  /\ running = PerSide(TRUE)
  /\ extracted = PerSide(<< >>)
  /\ dispatched = PerSide(<< >>)
  /\ calls = PerSide(<< >>)
  /\ sent = PerSide(<< >>)
  /\ nreads = 0
  /\ output = << >>
  /\ driver = [side \in Sides |-> Connected(side)]
  /\ callers = NoCallers

\* A read of n bytes by the server's listen.
FramerRead(n) ==
  /\ ListenChunk("server", n)
  /\ nreads' = nreads + 1

\* The stream ends: recv returns b'' and listen calls cleanup.
FramerEOF ==
  /\ running["server"]
  /\ wire["server"] = << >>
  /\ running' = [running EXCEPT !["server"] = FALSE]
  /\ driver' = [driver EXCEPT !["server"] = [cleanup(@) EXCEPT !.pc = "exited"]]
  /\ UNCHANGED << variant, stack, wire, buffer, extracted, dispatched, calls,
                  sent, nreads, input, output, callers >>

FramerNext ==
  \/ \E n \in 1..Len(wire["server"]) : FramerRead(n)
  \/ FramerEOF

SpecFramer == FramerInit /\ [][FramerNext]_vars

\* Helpers of the framing claims.
NonEmpty(seq) == SelectSeq(seq, LAMBDA p : p # << >>)

IsPrefix(a, b) == Len(a) <= Len(b) /\ SubSeq(b, 1, Len(a)) = a

\* The payloads of frames (each frame: preamble, two length bytes, payload).
PayloadsOf(frames) == [i \in 1..Len(frames) |-> SubSeq(frames[i], 4, Len(frames[i]))]

RECURSIVE FrontFrames(_)
\* The payloads of the complete frames the bytes b start with, read off the
\* wire format: preamble, big-endian length, payload.
FrontFrames(b) ==
  IF Len(b) >= 3 /\ b[1] = PREAMBLE /\ Len(b) >= 3 + (256 * b[2]) + b[3]
  THEN << SubSeq(b, 4, 3 + (256 * b[2]) + b[3]) >>
       \o FrontFrames(SubSeq(b, 4 + (256 * b[2]) + b[3], Len(b)))
  ELSE << >>

\* The stream is one frame and nothing else.
OneFrame == input.noise = << >> /\ Len(input.payloads) = 1

\* The stream is noise free of the preamble value, then one frame.
NoiseThenFrame ==
  /\ \A i \in 1..Len(input.noise) : input.noise[i] # PREAMBLE
  /\ Len(input.payloads) = 1

\* C3: the bytes of one well-formed frame, split over two or more reads at
\* any offsets: nothing is dispatched before the last byte of the frame was
\* read, and then exactly one payload, the frame's, is.
C3_Reassembly ==
  (OneFrame /\ nreads >= 2) =>
    /\ wire["server"] # << >> => dispatched["server"] = << >>
    /\ wire["server"] = << >> => dispatched["server"] = << input.payloads[1] >>

\* What holds of one frame: with a payload that is not empty, the statement
\* of C3 (for any number of reads).
NonEmptyFrameReassembled ==
  (OneFrame /\ input.payloads[1] # << >>) =>
    /\ wire["server"] # << >> => dispatched["server"] = << >>
    /\ wire["server"] = << >> => dispatched["server"] = << input.payloads[1] >>

\* C4: a read that leaves k >= 0 complete frames at the front of the
\* receive buffer dispatches, within that read and in buffer order, the
\* payloads of all k.
C4_Drain ==
  [][nreads' = nreads + 1 =>
       LET chunk == SubSeq(wire["server"], 1, Len(wire["server"]) - Len(wire'["server"]))
           new == SubSeq(dispatched'["server"], Len(dispatched["server"]) + 1,
                         Len(dispatched'["server"]))
       IN  IsPrefix(FrontFrames(buffer["server"] \o chunk), new)]_vars

\* What holds of a read: the payloads that are not empty are dispatched,
\* all of them and in buffer order.
NonEmptyFramesDrained ==
  [][nreads' = nreads + 1 =>
       LET chunk == SubSeq(wire["server"], 1, Len(wire["server"]) - Len(wire'["server"]))
           new == SubSeq(dispatched'["server"], Len(dispatched["server"]) + 1,
                         Len(dispatched'["server"]))
       IN  IsPrefix(NonEmpty(FrontFrames(buffer["server"] \o chunk)), new)]_vars

\* C5: the payloads dispatched are those of the frames removed from the
\* buffer, in the order of removal and each at most once; on a stream of
\* frames alone that order is the order on the wire.
C5_Fifo ==
  /\ dispatched["server"] = NonEmpty(PayloadsOf(extracted["server"]))
  /\ Len(dispatched["server"]) <= Len(extracted["server"])
  /\ input.noise = << >> => IsPrefix(PayloadsOf(extracted["server"]), input.payloads)
  /\ input.noise = << >> => IsPrefix(dispatched["server"], NonEmpty(input.payloads))

\* Two different payloads were dispatched over several reads.
C5_Witness ==
  /\ nreads >= 2
  /\ Len(dispatched["server"]) = 2
  /\ dispatched["server"][1] # dispatched["server"][2]

\* C6: N >= 0 noise bytes, none the preamble value, then one well-formed
\* frame, split into reads in any way: nothing is dispatched for the noise
\* and the frame's payload is dispatched exactly once, unchanged.
C6_Resync ==
  NoiseThenFrame =>
    /\ wire["server"] # << >> => dispatched["server"] = << >>
    /\ wire["server"] = << >> => dispatched["server"] = << input.payloads[1] >>

\* What holds of noise and one frame: with a payload that is not empty, the
\* statement of C6, and nothing is left in the buffer.
NonEmptyFrameAfterNoise ==
  (NoiseThenFrame /\ input.payloads[1] # << >>) =>
    /\ wire["server"] # << >> =>
         dispatched["server"] = << >> /\ extracted["server"] = << >>
    /\ wire["server"] = << >> =>
         /\ dispatched["server"] = << input.payloads[1] >>
         /\ buffer["server"] = << >>

(***************************************************************************)
(* Reliability runs: segments with any sequence number, a right or a wrong *)
(* checksum, handed one after the other to the server's                    *)
(* TransportLayer.process_incoming.                                        *)
(***************************************************************************)
MaxSegments == 4

\* Sequence numbers of the segments: those around the expected ones and
\* the largest one.
SegmentSeqs == 0..(MaxSegments + 1) \cup {SeqModulus - 1}

SegmentPayloads == {<< >>, << 65 >>}

\* The segment a sender's TransportLayer.process_outgoing emits under
\* sequence number seq.
Segment(seq, data) ==
  Transport_process_outgoing(
    [seq |-> (seq + SeqModulus - 1) % SeqModulus, expected_seq |-> 1, window_size |-> 8],
    data).out

\* A segment whose last checksum byte was damaged on the way.
Damaged(segment) == [segment EXCEPT ![8] = Xor(@, 1)]

TransportDeliver(seq, data, valid) ==
  /\ nreads < MaxSegments
  /\ LET segment == IF valid THEN Segment(seq, data) ELSE Damaged(Segment(seq, data))
         r == Transport_process_incoming(stack["server"].transport, segment)
     IN  /\ stack' = [stack EXCEPT !["server"].transport = r.self]
         /\ output' = r.out
  /\ input' = [seq |-> seq, payload |-> data, valid |-> valid,
               expected_seq |-> stack["server"].transport.expected_seq]
  /\ nreads' = nreads + 1
  /\ UNCHANGED << variant, wire, buffer, running, extracted, dispatched, calls, sent,
                  driver, callers >>

TransportNext ==
  \E seq \in SegmentSeqs, data \in SegmentPayloads, valid \in BOOLEAN :
    TransportDeliver(seq, data, valid)

SpecTransport == Init /\ [][TransportNext]_vars

\* The last segment moved the expected sequence number on.
Accepted ==
  stack["server"].transport.expected_seq = (input.expected_seq + 1) % SeqModulus

\* C7: a segment with a valid checksum is accepted by
\* TransportLayer.process_incoming (its payload returned, expected_seq moved
\* on by one) if and only if its sequence number equals expected_seq; a
\* duplicate and a gap are dropped (nothing returned, expected_seq kept).
C7_SequenceEnforced ==
  (nreads > 0 /\ input.valid) =>
    /\ Accepted <=> input.seq = input.expected_seq
    /\ Accepted => output = input.payload
    /\ ~ Accepted =>
         /\ output = << >>
         /\ stack["server"].transport.expected_seq = input.expected_seq

\* Sequence 1 was accepted, two other segments were dropped, and then
\* sequence 2 was accepted.
C7_Witness ==
  /\ nreads = 4
  /\ input.valid
  /\ input.seq = 2
  /\ input.expected_seq = 2
  /\ output = << 65 >>
  /\ stack["server"].transport.expected_seq = 3

(***************************************************************************)
(* Addressing runs: a frame built by one DataLinkLayer, one bit of its     *)
(* header or payload possibly altered on the way, handed to the            *)
(* process_incoming of another DataLinkLayer.                              *)
(***************************************************************************)
MaxLinkPayload == 2

\* The addresses stacks are built with; the last differs from the first in
\* one bit.
Macs == {OsiServerMac, OsiClientMac, DerivedClientMac(LocalMac)}

\* The (src_mac, dst_mac) configurations of a DataLinkLayer.
LinkConfigs ==
  {c \in [src_mac : Macs, dst_mac : Macs] : c.src_mac # c.dst_mac}

LinkPayloads == SeqsUpTo({0, 170}, MaxLinkPayload)

\* data with bit i (counted from the least significant bit of the first
\* byte) inverted.
FlipBit(data, i) ==
  [data EXCEPT ![(i \div 8) + 1] = Xor(@, Pow2(i % 8))]

\* The bit altered: none (-1) or any bit of the address header and payload.
LinkInputs ==
  {i \in [sender : LinkConfigs, receiver : LinkConfigs, payload : LinkPayloads,
          flip : -1..(8 * (12 + MaxLinkPayload) - 1)] :
     i.flip < 8 * (12 + Len(i.payload))}

LinkInit ==
  /\ variant = "osi"
  /\ input \in LinkInputs
  /\ stack = [side \in Sides |-> create(variant, side)]
  /\ wire = PerSide(<< >>)
  /\ buffer = PerSide(<< >>)
  /\ running = PerSide(TRUE)
  /\ extracted = PerSide(<< >>)
  /\ dispatched = PerSide(<< >>)
  /\ calls = PerSide(<< >>)
  /\ sent = PerSide(<< >>)
  /\ nreads = 0
  /\ output = << >>
  /\ driver = [side \in Sides |-> Connected(side)]
  /\ callers = NoCallers

\* The sender's process_outgoing, the alteration, the receiver's
\* process_incoming.
LinkDeliver ==
  /\ nreads = 0
  /\ LET frame == DataLink_process_outgoing(input.sender, input.payload)
         received == IF input.flip = -1 THEN frame ELSE FlipBit(frame, input.flip)
     IN  output' = DataLink_process_incoming(input.receiver, received)
  /\ nreads' = 1
  /\ UNCHANGED << variant, stack, wire, buffer, running, extracted, dispatched,
                  calls, sent, input, driver, callers >>

LinkNext == LinkDeliver

SpecLink == LinkInit /\ [][LinkNext]_vars

\* C9: a frame with a correct FCS is answered by
\* DataLinkLayer.process_incoming with its payload if the destination field
\* equals the stage's own src_mac, and dropped (b'') otherwise: a frame
\* from (local A, peer B) is accepted by (local B, peer A) and dropped by
\* every stage whose local address is not B.
C9_DestinationCheck ==
  (nreads = 1 /\ input.flip = -1) =>
    /\ input.receiver.src_mac = input.sender.dst_mac => output = input.payload
    /\ input.receiver.src_mac # input.sender.dst_mac => output = << >>

\* A frame with a payload was dropped by a stage that is not its
\* destination, although the stage's peer address is the frame's
\* destination.
C9_Witness ==
  /\ nreads = 1
  /\ input.flip = -1
  /\ input.payload # << >>
  /\ input.receiver.src_mac # input.sender.dst_mac
  /\ input.receiver.dst_mac = input.sender.dst_mac
  /\ output = << >>

\* C10: a frame from DataLinkLayer.process_outgoing with one bit of its
\* address header or payload altered is dropped by the receiver's
\* process_incoming; unaltered and addressed to the receiver it is accepted.
C10_IntegrityDrop ==
  nreads = 1 =>
    /\ input.flip # -1 => output = << >>
    /\ (input.flip = -1 /\ input.receiver.src_mac = input.sender.dst_mac) =>
         output = input.payload

\* A bit of the payload was altered in a frame addressed to the receiver,
\* and the frame was dropped.
C10_Witness ==
  /\ nreads = 1
  /\ input.flip >= 8 * 12
  /\ input.payload # << >>
  /\ input.receiver.src_mac = input.sender.dst_mac
  /\ output = << >>

(***************************************************************************)
(* Chain runs (src/osi.py): the client encodes a message, the data of one  *)
(* stage is damaged before the stages below encode it (or the sender is    *)
(* not the configured peer), and the server's receive_up decodes it.       *)
(***************************************************************************)
MaxExchanges == 2

\* No fault; the output of a stage with its first byte inverted; the output
\* of a stage cut to one byte; a sender whose stage is configured otherwise
\* (another destination address, a sequence counter one ahead, another
\* session id).
Faults ==
  {[stage |-> 0, kind |-> "none"]}
  \cup [stage : 2..7, kind : {"flip", "truncate"}]
  \cup [stage : {2, 4, 5}, kind : {"identity"}]

Damage(kind, out) ==
  IF out = << >> THEN out
  ELSE IF kind = "flip" THEN [out EXCEPT ![1] = Xor(@, 255)]
  ELSE IF kind = "truncate" THEN SubSeq(out, 1, 1)
  ELSE out

Misconfigured(st, fault) ==
  IF fault.kind # "identity" THEN st
  ELSE IF fault.stage = 2 THEN [st EXCEPT !.datalink.dst_mac = st.datalink.src_mac]
  ELSE IF fault.stage = 4 THEN [st EXCEPT !.transport.seq = (@ + 1) % SeqModulus]
  ELSE [st EXCEPT !.session.session_id = @ + 1]

RECURSIVE send_down_faulty(_, _, _, _)
\* Layer.send_down from stage k down to stage 2, the output of stage
\* fault.stage damaged on its way down.
send_down_faulty(k, st, data, fault) ==
  LET r == process_outgoing(k, st, data)
      out == IF fault.stage = k THEN Damage(fault.kind, r.out) ELSE r.out
  IN  IF k = 2 THEN [st |-> r.st, out |-> out]
      ELSE send_down_faulty(k - 1, r.st, out, fault)

\* The messages of the chain runs: the empty text and a text of one
\* two-byte character.
ChainTexts == {<< >>, << 233 >>}

ChainInit == Init /\ variant = "osi"

ChainExchange(text, fault) ==
  /\ nreads < MaxExchanges
  /\ LET good == send_down(7, stack["client"], text)
         bad == send_down_faulty(7, Misconfigured(stack["client"], fault), text, fault)
         r == receive_up_osi(1, stack["server"], bad.out, << >>)
     IN  /\ stack' = [client |-> good.st, server |-> r.st]
         /\ calls' = [calls EXCEPT !["server"] = r.calls]
         /\ input' = [text |-> text, fault |-> fault, payload |-> bad.out,
                      before |-> stack["server"]]
  /\ nreads' = nreads + 1
  /\ UNCHANGED << variant, wire, buffer, running, extracted, dispatched, sent, output,
                  driver, callers >>

ChainNext == \E text \in ChainTexts, fault \in Faults : ChainExchange(text, fault)

SpecChain == ChainInit /\ [][ChainNext]_vars

\* The stage object of stage k of a stack.
StageObject(st, k) ==
  CASE k = 2 -> st.datalink
    [] k = 3 -> st.network
    [] k = 4 -> st.transport
    [] k = 5 -> st.session
    [] k = 6 -> st.presentation
    [] k = 7 -> st.application

RECURSIVE DropStage(_, _, _)
\* The first stage from k on whose process_incoming, applied to what the
\* stage below returned, returns b'' or None; 8 when no stage does.
DropStage(st, data, k) ==
  LET r == process_incoming("osi", k, st, data)
  IN  IF r.out = None \/ r.out = << >> THEN k
      ELSE IF k = 7 THEN 8
      ELSE DropStage(r.st, r.out, k + 1)

\* C8: when the decode of stage k drops a frame, receive_up has invoked
\* process_incoming of the stages 2..k, each once and in order, and of no
\* stage above k, and the objects of the stages above k (the Transport
\* stage's expected_seq, the Application stage's received_data) are as they
\* were before the frame.
C8_DropHalts ==
  nreads > 0 =>
    LET k == DropStage(input.before, input.payload, 2)
    IN  k <= 7 =>
          /\ calls["server"] = [i \in 1..(k - 1) |-> i + 1]
          /\ \A j \in (k + 1)..7 :
               StageObject(stack["server"], j) = StageObject(input.before, j)

\* After a first message was received, a segment with a sequence number
\* one ahead was dropped by the Transport stage: the stages above were not
\* invoked and the Application stage still holds the first message.
C8_Witness ==
  /\ nreads = 2
  /\ input.fault = [stage |-> 4, kind |-> "identity"]
  /\ input.before.application.received_data # None
  /\ input.before.transport.expected_seq = 2
  /\ calls["server"] = << 2, 3, 4 >>
  /\ stack["server"].transport.expected_seq = 2
  /\ stack["server"].application = input.before.application

(***************************************************************************)
(* Stage runs: one packet handed to the process_incoming of one Network,   *)
(* Session or Presentation stage.                                          *)
(***************************************************************************)
MaxStagePayload == 1
MaxPresentationPayload == 2

\* The addresses stacks are built with.
Ips == {OsiServerIp, OsiClientIp, DerivedClientIp(LocalIp)}

NetworkConfigs ==
  {c \in [src_ip : Ips, dst_ip : Ips, ttl : {64}] : c.src_ip # c.dst_ip}

\* The configured session id, its successor and one that differs from it
\* in the first byte alone.
SessionIds == {1234, 1235, 1234 + 16777216}

SessionConfigs == [session_id : SessionIds, is_active : {FALSE}, sequence : {0, 1}]

\* b'secret' and a key of one byte.
PresentationKeys == {<< 115, 101, 99, 114, 101, 116 >>, << 107 >>}

StagePayloads == SeqsUpTo({0, 170}, MaxStagePayload)

\* Bytes with 8-bit and with 9-bit literal codes.
PresentationPayloads == SeqsUpTo({0, 65, 170, 255}, MaxPresentationPayload)

\* What happens to the packet on its way: nothing ("whole"), its first
\* byte replaced by that of an IPv6 header ("version"), or all but its
\* first keep bytes lost ("cut").
Shapes ==
  [kind : {"whole", "version"}, keep : {0}] \cup [kind : {"cut"}, keep : 0..12]

Shaped(shape, data) ==
  IF shape.kind = "whole" THEN data
  ELSE IF shape.kind = "version" THEN [data EXCEPT ![1] = (6 * 16) + 5]
  ELSE SubSeq(data, 1, Min(shape.keep, Len(data)))

StageInputs ==
  [stage : {3}, sender : NetworkConfigs, receiver : NetworkConfigs,
   payload : StagePayloads, shape : Shapes]
  \cup [stage : {5}, sender : SessionConfigs, receiver : SessionConfigs,
        payload : StagePayloads, shape : Shapes]
  \cup [stage : {6}, key : PresentationKeys, payload : PresentationPayloads]

StageInit ==
  /\ variant \in Variants
  /\ input \in StageInputs
  /\ stack = [side \in Sides |-> create(variant, side)]
  /\ wire = PerSide(<< >>)
  /\ buffer = PerSide(<< >>)
  /\ running = PerSide(TRUE)
  /\ extracted = PerSide(<< >>)
  /\ dispatched = PerSide(<< >>)
  /\ calls = PerSide(<< >>)
  /\ sent = PerSide(<< >>)
  /\ nreads = 0
  /\ output = << >>
  /\ driver = [side \in Sides |-> Connected(side)]
  /\ callers = NoCallers

\* The packet the receiving stage is handed.
StagePacket ==
  IF input.stage = 3
  THEN Shaped(input.shape, Network_process_outgoing(input.sender, input.payload))
  ELSE IF input.stage = 5
  THEN Shaped(input.shape, Session_process_outgoing(input.sender, input.payload).out)
  ELSE Presentation_process_outgoing([key |-> input.key], input.payload)

NetworkDeliver ==
  /\ nreads = 0
  /\ input.stage = 3
  /\ output' = IF variant = "osi"
               THEN Network_process_incoming_osi(input.receiver, StagePacket)
               ELSE Network_process_incoming_pkg(input.receiver, StagePacket)
  /\ nreads' = 1
  /\ UNCHANGED << variant, stack, wire, buffer, running, extracted, dispatched,
                  calls, sent, input, driver, callers >>

SessionDeliver ==
  /\ nreads = 0
  /\ input.stage = 5
  /\ output' = Session_process_incoming(input.receiver, StagePacket)
  /\ nreads' = 1
  /\ UNCHANGED << variant, stack, wire, buffer, running, extracted, dispatched,
                  calls, sent, input, driver, callers >>

PresentationDeliver ==
  /\ nreads = 0
  /\ input.stage = 6
  /\ output' = Presentation_process_incoming([key |-> input.key], StagePacket)
  /\ nreads' = 1
  /\ UNCHANGED << variant, stack, wire, buffer, running, extracted, dispatched,
                  calls, sent, input, driver, callers >>

StageNext == NetworkDeliver \/ SessionDeliver \/ PresentationDeliver

SpecStage == StageInit /\ [][StageNext]_vars

\* The destination address field of a packet of at least 10 bytes.
DestinationField(packet) == SubSeq(packet, 7, 10)

\* C11: NetworkLayer.process_incoming of src/layers/network.py drops (b'')
\* every packet shorter than 10 bytes, every packet whose version nibble is
\* not 4 and every packet whose destination address field (bytes 6..9) is
\* not the stage's own src_ip; otherwise it returns the bytes after the
\* 10-byte header.
C11_RoutingCheck ==
  (nreads = 1 /\ input.stage = 3 /\ variant = "pkg") =>
    IF \/ Len(StagePacket) < 10
       \/ StagePacket[1] \div 16 # 4
       \/ DestinationField(StagePacket) # input.receiver.src_ip
    THEN output = << >>
    ELSE output = SubSeq(StagePacket, 11, Len(StagePacket))

\* A whole packet with a payload was dropped by a stage that is not its
\* destination, although the stage's peer address is the packet's
\* destination.
C11_Witness ==
  /\ nreads = 1
  /\ input.stage = 3
  /\ variant = "pkg"
  /\ input.shape.kind = "whole"
  /\ input.payload # << >>
  /\ input.receiver.src_ip # input.sender.dst_ip
  /\ input.receiver.dst_ip = input.sender.dst_ip
  /\ output = << >>

\* C12: NetworkLayer.process_incoming of src/osi.py drops (b'') every
\* packet whose destination address field (bytes 6..9) is not the stage's
\* own src_ip.
C12_RoutingCheck ==
  (nreads = 1 /\ input.stage = 3 /\ variant = "osi" /\ Len(StagePacket) >= 10
     /\ DestinationField(StagePacket) # input.receiver.src_ip) =>
    output = << >>

\* C13: SessionLayer.process_incoming drops (b'') every frame shorter than
\* 12 bytes and every frame whose 4-byte session id is not the stage's
\* session_id; otherwise it returns the bytes after the 12-byte header.
C13_SessionCheck ==
  (nreads = 1 /\ input.stage = 5) =>
    IF \/ Len(StagePacket) < 12
       \/ SubSeq(StagePacket, 1, 4) # PackI(input.receiver.session_id)
    THEN output = << >>
    ELSE output = SubSeq(StagePacket, 13, Len(StagePacket))

\* A whole frame with a payload, whose session id differs from the
\* configured one in its first byte alone, was dropped.
C13_Witness ==
  /\ nreads = 1
  /\ input.stage = 5
  /\ input.shape.kind = "whole"
  /\ input.payload # << >>
  /\ input.sender.session_id = input.receiver.session_id + 16777216
  /\ output = << >>

\* C14: with one key on both sides,
\* PresentationLayer.process_incoming(process_outgoing(P)) = P for every
\* byte payload P.
C14_PresentationRoundTrip ==
  (nreads = 1 /\ input.stage = 6) => output = input.payload

\* A payload of the largest length, with a byte of a 9-bit code, came back
\* under the six-byte key.
C14_Witness ==
  /\ nreads = 1
  /\ input.stage = 6
  /\ Len(input.key) = 6
  /\ Len(input.payload) = MaxPresentationPayload
  /\ input.payload[1] = 255
  /\ output = input.payload

(***************************************************************************)
(* Concurrent senders: several threads inside                              *)
(* TransportLayer.process_outgoing of one stack.  The method takes no      *)
(* lock; the statement self.seq = (self.seq + 1) % 65536 reads the         *)
(* attribute and writes it back, and struct.pack('!H', self.seq) reads it  *)
(* once more.  A thread switch may fall between any two of these.          *)
(***************************************************************************)
MaxCalls == 2

Callers == {"t1", "t2"}

\* The payload a caller hands to the Reliability stage.
CallerData(c) == IF c = "t1" THEN << 1 >> ELSE << 2 >>

\* The counter values the runs start from: a fresh stack, and one whose
\* counter is about to wrap.
StartSeqs == {0, SeqModulus - 2}

ConcurrentInit ==
  /\ variant \in Variants
  /\ input \in [seq : StartSeqs]
  /\ stack = [side \in Sides |->
                [create(variant, side) EXCEPT !.transport.seq = input.seq]]
  /\ wire = PerSide(<< >>)
  /\ buffer = PerSide(<< >>)
  /\ running = PerSide(TRUE)
  /\ extracted = PerSide(<< >>)
  /\ dispatched = PerSide(<< >>)
  /\ calls = PerSide(<< >>)
  /\ sent = PerSide(<< >>)
  /\ nreads = 0
  /\ output = << >>
  /\ driver = [side \in Sides |-> Connected(side)]
  /\ callers = [c \in Callers |-> [pc |-> "idle", loaded |-> 0, calls |-> 0]]

\* A caller enters process_outgoing and evaluates self.seq + 1: the
\* attribute is read.
CallerLoad(c) ==
  /\ callers[c].pc = "idle"
  /\ callers[c].calls < MaxCalls
  /\ callers' = [callers EXCEPT ![c].pc = "loaded",
                                ![c].loaded = stack["client"].transport.seq]
  /\ UNCHANGED << variant, stack, wire, buffer, running, extracted, dispatched,
                  calls, sent, nreads, input, output, driver >>

\* self.seq = ... : the incremented value is written back.
CallerStore(c) ==
  /\ callers[c].pc = "loaded"
  /\ stack' = [stack EXCEPT !["client"].transport.seq =
                              (callers[c].loaded + 1) % SeqModulus]
  /\ callers' = [callers EXCEPT ![c].pc = "stored"]
  /\ UNCHANGED << variant, wire, buffer, running, extracted, dispatched,
                  calls, sent, nreads, input, output, driver >>

\* seq_bytes = struct.pack('!H', self.seq): the attribute is read again and
\* the segment is built from it and returned.
CallerPack(c) ==
  /\ callers[c].pc = "stored"
  /\ output' = Append(output, Segment(stack["client"].transport.seq, CallerData(c)))
  /\ callers' = [callers EXCEPT ![c].pc = "idle", ![c].calls = @ + 1]
  /\ UNCHANGED << variant, stack, wire, buffer, running, extracted, dispatched,
                  calls, sent, nreads, input, driver >>

ConcurrentNext ==
  \E c \in Callers : CallerLoad(c) \/ CallerStore(c) \/ CallerPack(c)

SpecConcurrent == ConcurrentInit /\ [][ConcurrentNext]_vars

\* The sequence number a segment carries.
SeqOf(segment) == UnpackH(SubSeq(segment, 1, 2))

\* The n-th number after the starting value of the counter.
NthSeq(n) == (input.seq + n) % SeqModulus

\* C15: when several callers are inside send_down of one stack at once, no
\* two emitted segments carry the same sequence number, and once every call
\* has returned no sequence number was skipped: the segments carry exactly
\* the numbers that follow the starting value.
C15_SerializedCounter ==
  /\ \A i, j \in 1..Len(output) : i # j => SeqOf(output[i]) # SeqOf(output[j])
  /\ (\A c \in Callers : callers[c].pc = "idle") =>
       {SeqOf(output[i]) : i \in 1..Len(output)} = {NthSeq(n) : n \in 1..Len(output)}

(***************************************************************************)
(* Driver runs: PhysicalLayer.start, the listen thread and cleanup of both *)
(* sides, from construction on.  The outcomes of connect, accept and recv  *)
(* are the environment's choice.                                           *)
(***************************************************************************)
\* max_retries and retry_delay of start.
MaxRetries == 5
RetryDelay == 1

MaxDriverSends == 1

\* The text the driver runs send.
DriverText == << 65 >>

\* The object listen reads from and send_down writes to.
Endpoint(side) == IF side = "server" THEN driver[side].conn ELSE driver[side].socket

DriverInit ==
  /\ variant \in Variants
  /\ stack = [side \in Sides |-> create(variant, side)]
  /\ wire = PerSide(<< >>)
  /\ buffer = PerSide(<< >>)
  /\ running = PerSide(FALSE)
  /\ extracted = PerSide(<< >>)
  /\ dispatched = PerSide(<< >>)
  /\ calls = PerSide(<< >>)
  /\ sent = PerSide(<< >>)
  /\ nreads = 0
  /\ input = << >>
  /\ output = << >>
  /\ driver = PerSide(NewDriver)
  /\ callers = NoCallers

DriverUnchanged ==
  UNCHANGED << variant, stack, wire, buffer, extracted, dispatched, calls, sent,
               nreads, input, output, callers >>

\* start of the server up to accept: the flag is set, the socket bound and
\* listening.
StartServer ==
  /\ driver["server"].pc = "created"
  /\ running' = [running EXCEPT !["server"] = TRUE]
  /\ driver' = [driver EXCEPT !["server"].pc = "accepting"]
  /\ DriverUnchanged

\* accept returns the connection of a client that has connected; the listen
\* thread is started.
AcceptSucceeds ==
  /\ driver["server"].pc = "accepting"
  /\ driver["server"].socket = "open"
  /\ driver["client"].listen_thread
  /\ driver' = [driver EXCEPT !["server"].pc = "listening",
                              !["server"].conn = "open",
                              !["server"].listen_thread = TRUE]
  /\ UNCHANGED running
  /\ DriverUnchanged

\* Mutant: the timeout is re-raised without cleanup.
AcceptTimeout_bare ==
  /\ driver["server"].pc = "accepting"
  /\ ~ driver["client"].listen_thread
  /\ driver' = [driver EXCEPT !["server"].pc = "failed",
                              !["server"].raised = "timeout"]
  /\ UNCHANGED running
  /\ DriverUnchanged

\* No client connects within the timeout: accept raises socket.timeout,
\* the handler calls cleanup and re-raises, the outer handler calls cleanup
\* again and re-raises.
AcceptTimeout ==
  /\ driver["server"].pc = "accepting"
  /\ ~ driver["client"].listen_thread
  /\ running' = [running EXCEPT !["server"] = FALSE]
  /\ driver' = [driver EXCEPT !["server"] =
                  [cleanup(@) EXCEPT !.pc = "failed", !.raised = "timeout"]]
  /\ DriverUnchanged

\* bind, listen or accept raises another exception: cleanup, re-raise.
AcceptRaises ==
  /\ driver["server"].pc = "accepting"
  /\ running' = [running EXCEPT !["server"] = FALSE]
  /\ driver' = [driver EXCEPT !["server"] =
                  [cleanup(@) EXCEPT !.pc = "failed", !.raised = "error"]]
  /\ DriverUnchanged

\* start of the client up to the retry loop.
StartClient ==
  /\ driver["client"].pc = "created"
  /\ running' = [running EXCEPT !["client"] = TRUE]
  /\ driver' = [driver EXCEPT !["client"].pc = "connecting"]
  /\ DriverUnchanged

\* connect returns: break, the listen thread is started.
ConnectSucceeds ==
  /\ driver["client"].pc = "connecting"
  /\ driver["client"].socket = "open"
  /\ driver["server"].pc = "accepting"
  /\ driver["server"].socket = "open"
  /\ driver' = [driver EXCEPT !["client"].pc = "listening",
                              !["client"].attempt = @ + 1,
                              !["client"].listen_thread = TRUE]
  /\ UNCHANGED running
  /\ DriverUnchanged

\* Mutant: one more attempt is made before start gives up.
ConnectFails_more(e) ==
  /\ driver["client"].pc = "connecting"
  /\ IF driver["client"].attempt + 1 < MaxRetries + 1
     THEN /\ driver' = [driver EXCEPT !["client"].pc = "sleeping",
                                      !["client"].attempt = @ + 1]
          /\ UNCHANGED running
     ELSE /\ running' = [running EXCEPT !["client"] = FALSE]
          /\ driver' = [driver EXCEPT !["client"] =
                          [cleanup(@) EXCEPT !.pc = "failed", !.attempt = @ + 1,
                                             !.raised = e]]
  /\ DriverUnchanged

\* connect raises ConnectionRefusedError or socket.timeout: before the
\* last attempt start goes to sleep, at the last one it raises the error,
\* and the outer handler calls cleanup and re-raises.
ConnectFails(e) ==
  /\ driver["client"].pc = "connecting"
  /\ IF driver["client"].attempt + 1 < MaxRetries
     THEN /\ driver' = [driver EXCEPT !["client"].pc = "sleeping",
                                      !["client"].attempt = @ + 1]
          /\ UNCHANGED running
     ELSE /\ running' = [running EXCEPT !["client"] = FALSE]
          /\ driver' = [driver EXCEPT !["client"] =
                          [cleanup(@) EXCEPT !.pc = "failed", !.attempt = @ + 1,
                                             !.raised = e]]
  /\ DriverUnchanged

\* connect raises an exception the retry loop does not catch: the outer
\* handler calls cleanup and re-raises.
ConnectRaises ==
  /\ driver["client"].pc = "connecting"
  /\ running' = [running EXCEPT !["client"] = FALSE]
  /\ driver' = [driver EXCEPT !["client"] =
                  [cleanup(@) EXCEPT !.pc = "failed", !.attempt = @ + 1,
                                     !.raised = "error"]]
  /\ DriverUnchanged

\* time.sleep(retry_delay), the socket is closed and a new one made.
Retry ==
  /\ driver["client"].pc = "sleeping"
  /\ driver' = [driver EXCEPT !["client"].pc = "connecting",
                              !["client"].slept = @ + RetryDelay,
                              !["client"].socket = "open",
                              !["client"].sockets = @ + 1]
  /\ UNCHANGED running
  /\ DriverUnchanged

\* Mutant: the loop head does not look at the flag.
ListenHead_deaf(side) ==
  /\ driver[side].pc = "listening"
  /\ driver' = [driver EXCEPT ![side].pc = "reading"]
  /\ UNCHANGED running
  /\ DriverUnchanged

\* while self.running.is_set(): with the flag set the thread enters recv,
\* with the flag clear it leaves the loop and calls cleanup.
ListenHead(side) ==
  /\ driver[side].pc = "listening"
  /\ IF running[side]
     THEN driver' = [driver EXCEPT ![side].pc = "reading"]
     ELSE driver' = [driver EXCEPT ![side] = [cleanup(@) EXCEPT !.pc = "exited"]]
  /\ UNCHANGED running
  /\ DriverUnchanged

\* recv returns n bytes: the body of the loop runs and the thread is back at
\* the loop head.
ReadData(side, n) ==
  /\ driver[side].pc = "reading"
  /\ Endpoint(side) = "open"
  /\ ReadChunk(side, n)
  /\ driver' = [driver EXCEPT ![side].pc = "listening", ![side].last_read = "data"]
  /\ UNCHANGED nreads

\* Mutant: an empty chunk is taken for "nothing yet" and the loop goes on.
ReadEOF_retry(side) ==
  /\ driver[side].pc = "reading"
  /\ Endpoint(side) = "open"
  /\ wire[side] = << >>
  /\ driver[Peer(side)].socket = "closed"
  /\ driver' = [driver EXCEPT ![side].pc = "listening", ![side].last_read = "eof"]
  /\ UNCHANGED running
  /\ DriverUnchanged

\* recv returns b'' (the peer closed and everything was read): break,
\* cleanup.
ReadEOF(side) ==
  /\ driver[side].pc = "reading"
  /\ Endpoint(side) = "open"
  /\ wire[side] = << >>
  /\ driver[Peer(side)].socket = "closed"
  /\ running' = [running EXCEPT ![side] = FALSE]
  /\ driver' = [driver EXCEPT ![side] =
                  [cleanup(@) EXCEPT !.pc = "exited", !.last_read = "eof"]]
  /\ DriverUnchanged

\* recv raises (reset by the peer, socket closed under the thread, ...): the
\* handler of the loop breaks, cleanup.
ReadError(side) ==
  /\ driver[side].pc = "reading"
  /\ running' = [running EXCEPT ![side] = FALSE]
  /\ driver' = [driver EXCEPT ![side] =
                  [cleanup(@) EXCEPT !.pc = "exited", !.last_read = "error"]]
  /\ DriverUnchanged

\* The owner of the stack clears the running flag.
SignalStop(side) ==
  /\ driver[side].pc \in {"listening", "reading"}
  /\ running[side]
  /\ running' = [running EXCEPT ![side] = FALSE]
  /\ driver' = [driver EXCEPT ![side].stop = "signal"]
  /\ DriverUnchanged

\* The owner of the stack calls cleanup (main's handlers).
OwnerCleanup(side) ==
  /\ driver[side].pc # "created"
  /\ running[side]
  /\ running' = [running EXCEPT ![side] = FALSE]
  /\ driver' = [driver EXCEPT ![side] = [cleanup(@) EXCEPT !.stop = "cleanup"]]
  /\ DriverUnchanged

\* Mutant: a sendall that raises is re-raised without cleanup.
DriverSend_bare(side, raises) ==
  /\ driver[side].pc \in {"listening", "reading", "exited", "failed"}
  /\ stack["client"].transport.seq + stack["server"].transport.seq < MaxDriverSends
  /\ LET r == send_down(7, stack[side], DriverText)
     IN  /\ stack' = [stack EXCEPT ![side] = r.st]
         /\ IF ~ running[side]
            THEN /\ driver' = [driver EXCEPT ![side] =
                                 [cleanup(@) EXCEPT !.send_failures = @ + 1]]
                 /\ UNCHANGED << running, wire, sent >>
            ELSE IF driver[Peer(side)].socket = "closed"
            THEN /\ driver' = [driver EXCEPT ![side].send_failures =
                                 IF raises THEN @ + 1 ELSE @]
                 /\ UNCHANGED << running, wire, sent >>
            ELSE /\ wire' = [wire EXCEPT ![Peer(side)] =
                               @ \o Physical_process_outgoing(r.out)]
                 /\ sent' = [sent EXCEPT ![side] = Append(@, DriverText)]
                 /\ UNCHANGED << running, driver >>
  /\ UNCHANGED << variant, buffer, extracted, dispatched, calls, nreads, input,
                  output, callers >>

\* Mutant: send_down does not look at the running flag; it fails only when
\* its own socket is closed.
DriverSend_unchecked(side, raises) ==
  /\ driver[side].pc \in {"listening", "reading", "exited", "failed"}
  /\ stack["client"].transport.seq + stack["server"].transport.seq < MaxDriverSends
  /\ LET r == send_down(7, stack[side], DriverText)
     IN  /\ stack' = [stack EXCEPT ![side] = r.st]
         /\ IF Endpoint(side) # "open"
            THEN /\ running' = [running EXCEPT ![side] = FALSE]
                 /\ driver' = [driver EXCEPT ![side] =
                                 [cleanup(@) EXCEPT !.send_failures = @ + 1]]
                 /\ UNCHANGED << wire, sent >>
            ELSE IF driver[Peer(side)].socket = "closed"
            THEN /\ running' = [running EXCEPT ![side] = ~ raises]
                 /\ driver' = [driver EXCEPT ![side] =
                                 IF raises
                                 THEN [cleanup(@) EXCEPT !.send_failures = @ + 1]
                                 ELSE @]
                 /\ UNCHANGED << wire, sent >>
            ELSE /\ wire' = [wire EXCEPT ![Peer(side)] =
                               @ \o Physical_process_outgoing(r.out)]
                 /\ sent' = [sent EXCEPT ![side] = Append(@, DriverText)]
                 /\ UNCHANGED << running, driver >>
  /\ UNCHANGED << variant, buffer, extracted, dispatched, calls, nreads, input,
                  output, callers >>

\* application.send_down(DriverText) after start has returned or raised:
\* with the flag clear PhysicalLayer.send_down raises, calls cleanup and
\* re-raises; with the peer gone sendall raises or the bytes are lost;
\* otherwise the frame is written.
DriverSend(side, raises) ==
  /\ driver[side].pc \in {"listening", "reading", "exited", "failed"}
  /\ stack["client"].transport.seq + stack["server"].transport.seq < MaxDriverSends
  /\ LET r == send_down(7, stack[side], DriverText)
     IN  /\ stack' = [stack EXCEPT ![side] = r.st]
         /\ IF ~ running[side]
            THEN /\ driver' = [driver EXCEPT ![side] =
                                 [cleanup(@) EXCEPT !.send_failures = @ + 1]]
                 /\ UNCHANGED << running, wire, sent >>
            ELSE IF driver[Peer(side)].socket = "closed"
            THEN /\ running' = [running EXCEPT ![side] = ~ raises]
                 /\ driver' = [driver EXCEPT ![side] =
                                 IF raises
                                 THEN [cleanup(@) EXCEPT !.send_failures = @ + 1]
                                 ELSE @]
                 /\ UNCHANGED << wire, sent >>
            ELSE /\ wire' = [wire EXCEPT ![Peer(side)] =
                               @ \o Physical_process_outgoing(r.out)]
                 /\ sent' = [sent EXCEPT ![side] = Append(@, DriverText)]
                 /\ UNCHANGED << running, driver >>
  /\ UNCHANGED << variant, buffer, extracted, dispatched, calls, nreads, input,
                  output, callers >>

DriverNext ==
  \/ StartServer
  \/ AcceptSucceeds
  \/ AcceptTimeout
  \/ AcceptRaises
  \/ StartClient
  \/ ConnectSucceeds
  \/ \E e \in {"refused", "timeout"} : ConnectFails(e)
  \/ ConnectRaises
  \/ Retry
  \/ \E side \in Sides : ListenHead(side)
  \/ \E side \in Sides :
       \E n \in {Min(FragmentSize, Len(wire[side])), Min(RecvSize, Len(wire[side]))} :
         ReadData(side, n)
  \/ \E side \in Sides : ReadEOF(side)
  \/ \E side \in Sides : ReadError(side)
  \/ \E side \in Sides : SignalStop(side)
  \/ \E side \in Sides : OwnerCleanup(side)
  \/ \E side \in Sides, raises \in BOOLEAN : DriverSend(side, raises)

SpecDriver == DriverInit /\ [][DriverNext]_vars

\* A listen thread at its loop head is runnable and gets its turn.
FairSpecDriver == SpecDriver /\ \A side \in Sides : WF_vars(ListenHead(side))

\* cleanup has run on this side: flag clear, socket closed, connection (if
\* there was one) closed.
CleanedUp(side) ==
  /\ ~ running[side]
  /\ driver[side].socket = "closed"
  /\ driver[side].conn # "open"

\* The listen thread of this side stands at its loop head with the flag
\* clear: the stop signal came while it was there, or during the read and
\* the turn of the loop that have just ended.
StoppedAtHead(side) == driver[side].pc = "listening" /\ ~ running[side]

\* C16: once the running flag is cleared the receive loop starts no further
\* iteration after the read in progress has returned (from its loop head it
\* never enters recv again), it eventually exits, and the connection and the
\* socket are closed.
C16_StopSignal ==
  /\ [][\A side \in Sides :
          StoppedAtHead(side) => driver'[side].pc \in {"listening", "exited"}]_vars
  /\ \A side \in Sides :
       StoppedAtHead(side) ~> (driver[side].pc = "exited" /\ CleanedUp(side))

\* The server's flag was cleared by the stop signal alone while a read was
\* in progress; the read returned a frame, which was dispatched, and the
\* loop exited and closed connection and socket.
C16_Witness ==
  /\ driver["server"].stop = "signal"
  /\ driver["server"].last_read = "data"
  /\ Len(dispatched["server"]) > 0
  /\ driver["server"].pc = "exited"
  /\ CleanedUp("server")
  /\ driver["server"].send_failures = 0

\* The last recv of this side returned b'' or raised.
ReadEnded(side) == driver[side].last_read \in {"eof", "error"}

\* Once a read has ended the loop nothing is extracted or dispatched.
NothingAfterReadEnded ==
  \A side \in Sides :
    ReadEnded(side) => /\ dispatched'[side] = dispatched[side]
                       /\ extracted'[side] = extracted[side]
                       /\ calls'[side] = calls[side]

\* C17: when recv returns zero bytes or raises, the receive loop ends
\* without an exception leaving listen (the thread returns), cleanup has
\* been called, and nothing is extracted or dispatched afterwards.
C17_ReadEndsLoop ==
  /\ [](\A side \in Sides :
          ReadEnded(side) => (driver[side].pc = "exited" /\ CleanedUp(side)))
  /\ [][NothingAfterReadEnded]_vars

\* The server had read the first part of a frame when recv raised: the
\* loop ended with that part in the buffer and the rest unread, nothing
\* dispatched.
C17_Witness ==
  /\ driver["server"].last_read = "error"
  /\ buffer["server"] # << >>
  /\ wire["server"] # << >>
  /\ dispatched["server"] = << >>
  /\ driver["server"].pc = "exited"
  /\ CleanedUp("server")

\* recv returned b'' after a frame had been read and dispatched.
EofAfterFrame ==
  /\ driver["server"].last_read = "eof"
  /\ Len(dispatched["server"]) = 1
  /\ driver["server"].pc = "exited"
  /\ CleanedUp("server")

\* What holds of the client's start at every moment.
ConnectRetryState ==
  LET c == driver["client"]
  IN  /\ c.attempt <= MaxRetries
      /\ c.pc = "connecting" =>
           (c.sockets = c.attempt + 1 /\ c.slept = c.attempt * RetryDelay)
      /\ c.pc = "sleeping" =>
           (/\ c.attempt >= 1
            /\ c.sockets = c.attempt
            /\ c.slept = (c.attempt - 1) * RetryDelay)
      /\ c.listen_thread =>
           (/\ c.raised = "none"
            /\ c.attempt >= 1
            /\ c.sockets = c.attempt
            /\ c.slept = (c.attempt - 1) * RetryDelay)
      /\ (c.pc = "failed" /\ c.raised \in {"refused", "timeout"}) =>
           (/\ c.attempt = MaxRetries
            /\ c.sockets = MaxRetries
            /\ ~ running["client"]
            /\ ~ c.listen_thread)

\* What holds of every step: after the success no attempt is made and no
\* socket created; the listen thread starts at the loop head; a start that
\* raised stays failed, its flag clear and its listen thread not started.
ConnectRetryStep ==
  LET c == driver["client"]
      d == driver'["client"]
  IN  /\ c.listen_thread =>
           (d.attempt = c.attempt /\ d.sockets = c.sockets /\ d.listen_thread)
      /\ (~ c.listen_thread /\ d.listen_thread) => d.pc = "listening"
      /\ c.pc = "failed" =>
           (d.pc = "failed" /\ ~ running'["client"] /\ ~ d.listen_thread)

\* C18: start of the client makes at most MaxRetries connect attempts; each
\* attempt after the first comes after one sleep of RetryDelay and on a
\* socket made for it; the first attempt that succeeds ends the retries and
\* starts the listen thread; when the last attempt fails start raises, the
\* running flag is clear and the listen thread is never started.
C18_ConnectRetry == []ConnectRetryState /\ [][ConnectRetryStep]_vars

\* The fifth attempt failed and start raised.
C18_Witness ==
  /\ driver["client"].pc = "failed"
  /\ driver["client"].attempt = MaxRetries
  /\ driver["client"].raised = "refused"
  /\ driver["client"].slept = (MaxRetries - 1) * RetryDelay
  /\ ~ running["client"]

\* The third attempt succeeded and the listen thread runs.
ConnectedAtThirdAttempt ==
  /\ driver["client"].listen_thread
  /\ driver["client"].attempt = 3
  /\ driver["client"].sockets = 3

\* The state after an accept that timed out.
AcceptTimedOut ==
  driver["server"].raised = "timeout" =>
    (/\ driver["server"].pc = "failed"
     /\ CleanedUp("server")
     /\ ~ driver["server"].listen_thread
     /\ sent["server"] = << >>
     /\ wire["client"] = << >>)

\* A send_down of the server (its Reliability counter moves) after the
\* timeout raises.
SendAfterTimeoutFails ==
  (/\ driver["server"].raised = "timeout"
   /\ stack'["server"].transport.seq # stack["server"].transport.seq) =>
    driver'["server"].send_failures = driver["server"].send_failures + 1

\* C19: when the server's accept times out, start raises, cleanup has
\* cleared the running flag and closed the socket, the listen thread is
\* never started, and every later send_down fails: it raises and writes
\* nothing.
C19_AcceptTimeout == []AcceptTimedOut /\ [][SendAfterTimeoutFails]_vars

\* After the timeout the server's owner called send_down, which raised.
C19_Witness ==
  /\ driver["server"].raised = "timeout"
  /\ driver["server"].pc = "failed"
  /\ driver["server"].send_failures = 1
  /\ stack["server"].transport.seq = 1
  /\ CleanedUp("server")

(***************************************************************************)
(* Drop runs: the server's listen reads a stream made of optional noise, a *)
(* frame of the client's stack that some stage of the server drops, and a  *)
(* frame that follows it.                                                  *)
(***************************************************************************)
\* Noise free of the preamble value.
DropNoise == {<< >>, << 0 >>}

\* What follows the first frame: the next frame of the same sender, or a
\* frame that carries no payload.
Follows == {"next", "empty"}

DropInputs ==
  [text : ChainTexts, fault : Faults, noise : DropNoise, follow : Follows]

\* The first frame: the sender's frame for text, damaged by fault.
FirstFrame(in) ==
  Physical_process_outgoing(
    send_down_faulty(7, Misconfigured(create("osi", "client"), in.fault),
                     in.text, in.fault).out)

\* The frame that follows it.
FollowingFrame(in) ==
  IF in.follow = "empty" THEN Physical_process_outgoing(<< >>)
  ELSE Physical_process_outgoing(
         send_down(7, send_down(7, create("osi", "client"), in.text).st, in.text).out)

DropInit ==
  /\ variant = "osi"
  /\ input \in DropInputs
  /\ stack = [side \in Sides |-> create(variant, side)]
  /\ wire = [side \in Sides |->
               IF side = "server"
               THEN input.noise \o FirstFrame(input) \o FollowingFrame(input)
               ELSE << >>]
  /\ buffer = PerSide(<< >>)
  /\ running = PerSide(TRUE)
  /\ extracted = PerSide(<< >>)
  /\ dispatched = PerSide(<< >>)
  /\ calls = PerSide(<< >>)
  /\ sent = PerSide(<< >>)
  /\ nreads = 0
  /\ output = << >>
  /\ driver = [side \in Sides |-> Connected(side)]
  /\ callers = NoCallers

\* The reads of the drop runs return a fragment or everything there is.
DropNext ==
  \E n \in {Min(FragmentSize, Len(wire["server"])), Len(wire["server"])} :
    FramerRead(n)

SpecDrops == DropInit /\ [][DropNext]_vars

\* The listen thread of the server is alive and nothing went back to the
\* sender: the flag is set, connection and socket are open, the server has
\* written nothing.
LoopAliveAndSilent ==
  /\ running["server"]
  /\ driver["server"].pc = "listening"
  /\ driver["server"].socket = "open"
  /\ driver["server"].conn = "open"
  /\ wire["client"] = << >>
  /\ sent["server"] = << >>

\* The first frame of the run is dropped (or cut off) by some stage of the
\* server's stack.
FirstFrameDropped ==
  DropStage(create("osi", "server"), SubSeq(FirstFrame(input), 4, Len(FirstFrame(input))), 2) <= 7

\* C20: a frame dropped at any stage, or noise discarded by the framer,
\* raises nothing into the receive loop, leaves the running flag set and
\* sends nothing back, and the loop goes on to extract and dispatch the
\* frames that follow.
C20_SilentDrops ==
  (nreads > 0 /\ (FirstFrameDropped \/ input.noise # << >>)) =>
    /\ LoopAliveAndSilent
    /\ wire["server"] = << >> =>
         /\ extracted["server"] = << FirstFrame(input), FollowingFrame(input) >>
         /\ dispatched["server"] = PayloadsOf(extracted["server"])

\* What holds after a drop: all of C20 when the frame that follows carries
\* a payload; a frame without payload is extracted and not dispatched.
DropsSilentBeforePayloads ==
  (nreads > 0 /\ (FirstFrameDropped \/ input.noise # << >>)) =>
    /\ LoopAliveAndSilent
    /\ wire["server"] = << >> =>
         /\ extracted["server"] = << FirstFrame(input), FollowingFrame(input) >>
         /\ dispatched["server"] = NonEmpty(PayloadsOf(extracted["server"]))
         /\ buffer["server"] = << >>

\* A frame was dropped by the Session stage and the sender's next frame was
\* extracted and dispatched after it.
DroppedThenDispatched ==
  /\ nreads > 1
  /\ input.fault = [stage |-> 5, kind |-> "identity"]
  /\ input.follow = "next"
  /\ input.noise # << >>
  /\ wire["server"] = << >>
  /\ Len(dispatched["server"]) = 2
  /\ LoopAliveAndSilent

(***************************************************************************)
(* Physical runs: one payload framed by PhysicalLayer.process_outgoing and *)
(* the frame handed to PhysicalLayer.process_incoming.                     *)
(***************************************************************************)
MaxPhysicalPayload == 3

\* n zero bytes.
Zeros(n) == [i \in 1..n |-> 0]

\* Short payloads of every content, and payloads at and just above the
\* largest length the length field holds.
PhysicalPayloads ==
  SeqsUpTo({0, PREAMBLE, 255}, MaxPhysicalPayload)
  \cup {Zeros(MaxFrameLength - 1), Zeros(MaxFrameLength), Zeros(MaxFrameLength + 1)}

PhysicalInit ==
  /\ variant \in Variants
  /\ input \in [payload : PhysicalPayloads]
  /\ stack = [side \in Sides |-> create(variant, side)]
  /\ wire = PerSide(<< >>)
  /\ buffer = PerSide(<< >>)
  /\ running = PerSide(TRUE)
  /\ extracted = PerSide(<< >>)
  /\ dispatched = PerSide(<< >>)
  /\ calls = PerSide(<< >>)
  /\ sent = PerSide(<< >>)
  /\ nreads = 0
  /\ output = << >>
  /\ driver = [side \in Sides |-> Connected(side)]
  /\ callers = NoCallers

\* process_outgoing on the payload, then process_incoming on what it
\* returned (when it returned).
PhysicalFrame ==
  /\ nreads = 0
  /\ LET frame == Physical_process_outgoing(input.payload)
     IN  output' = [frame |-> frame,
                    decoded |-> IF frame = StructError THEN StructError
                                ELSE Physical_process_incoming(frame)]
  /\ nreads' = 1
  /\ UNCHANGED << variant, stack, wire, buffer, running, extracted, dispatched,
                  calls, sent, input, driver, callers >>

PhysicalNext == PhysicalFrame

SpecPhysical == PhysicalInit /\ [][PhysicalNext]_vars

\* C21: for every byte payload PhysicalLayer.process_outgoing does not fail
\* and returns the sentinel 0xAA, the payload's byte count as two
\* big-endian bytes, and the payload; PhysicalLayer.process_incoming
\* applied to that frame returns the payload.
C21_FramingTotal ==
  nreads = 1 =>
    /\ output.frame # StructError
    /\ Len(output.frame) = 3 + Len(input.payload)
    /\ output.frame[1] = PREAMBLE
    /\ (256 * output.frame[2]) + output.frame[3] = Len(input.payload)
    /\ output.frame[2] \in 0..255
    /\ output.frame[3] \in 0..255
    /\ SubSeq(output.frame, 4, Len(output.frame)) = input.payload
    /\ output.decoded = input.payload

\* What holds of framing: the statement of C21 for payloads of at most
\* 65535 bytes.
FramingExactUpToMaxLength ==
  (nreads = 1 /\ Len(input.payload) <= MaxFrameLength) =>
    /\ output.frame = << PREAMBLE, Len(input.payload) \div 256, Len(input.payload) % 256 >>
                      \o input.payload
    /\ output.decoded = input.payload

\* What a step does to the outbound counter of a side: a send_down that
\* put its frame on the socket moved it on by one, a send_down that raised
\* left it where it was.
CounterFollowsSends(side) ==
  LET seq       == stack[side].transport.seq
      written   == Len(sent'[side]) > Len(sent[side])
      failed    == driver'[side].send_failures > driver[side].send_failures
  IN  /\ written => stack'[side].transport.seq = (seq + 1) % SeqModulus
      /\ failed => stack'[side].transport.seq = seq

\* C22: the Reliability stage's outbound counter is mutated exactly once
\* per successful send: a send_down that completes advances it by one, a
\* send_down that fails (connection closed, socket write raised) leaves it
\* unchanged.
C22_CounterOncePerSuccess == [][\A side \in Sides : CounterFollowsSends(side)]_vars

\* What holds of the counter: every send_down, completed or failed, moves
\* it on by one.
CounterOncePerCall ==
  [][\A side \in Sides :
       LET called == \/ Len(sent'[side]) > Len(sent[side])
                     \/ driver'[side].send_failures > driver[side].send_failures
       IN  called => stack'[side].transport.seq =
                       (stack[side].transport.seq + 1) % SeqModulus]_vars

(***************************************************************************)
(* Thread runs: on the client's stack, one or two threads inside           *)
(* application.send_down and the listen thread inside receive_up, each     *)
(* advancing one stage at a time (Layer.send_down and Layer.receive_up     *)
(* take no lock), and the owner's cleanup.                                 *)
(***************************************************************************)
MaxIncoming == 2

Senders == {"t1", "t2"}

\* The text a sender thread sends.
SenderText(c) == IF c = "t1" THEN << 65 >> ELSE << 233 >>

\* The payloads the server's stack hands to its Framer for its first two
\* messages.
ServerPayload(n) ==
  IF n = 1 THEN send_down(7, create("osi", "server"), << 66 >>).out
  ELSE send_down(7, send_down(7, create("osi", "server"), << 66 >>).st, << 66 >>).out

\* What the listen thread dispatches in a run: up to MaxIncoming payloads
\* of the server, in any order and with repetitions.
IncomingRuns == SeqsUpTo({1, 2}, MaxIncoming)

ThreadInputs == [senders : (SUBSET Senders) \ {{}}, incoming : IncomingRuns]

\* A thread that has just called application.send_down(text).
NewSender(c) ==
  [pc |-> 7, data |-> SenderText(c), trace |-> << >>, writes |-> 0]

\* The listen thread about to call receive_up on the first payload.
NewReceiver(incoming) ==
  [pc |-> IF incoming = << >> THEN 0 ELSE 2,
   data |-> IF incoming = << >> THEN << >> ELSE ServerPayload(incoming[1]),
   index |-> 1, decisions |-> << >>]

ThreadInit ==
  /\ variant = "osi"
  /\ input \in ThreadInputs
  /\ stack = [side \in Sides |-> create(variant, side)]
  /\ wire = PerSide(<< >>)
  /\ buffer = PerSide(<< >>)
  /\ running = PerSide(TRUE)
  /\ extracted = PerSide(<< >>)
  /\ dispatched = PerSide(<< >>)
  /\ calls = PerSide(<< >>)
  /\ sent = PerSide(<< >>)
  /\ nreads = 0
  /\ output = << >>
  /\ driver = [side \in Sides |-> Connected(side)]
  /\ callers = [c \in input.senders \cup {"rx"} |->
                  IF c = "rx" THEN NewReceiver(input.incoming) ELSE NewSender(c)]

ThreadUnchanged ==
  UNCHANGED << variant, buffer, extracted, dispatched, calls, sent, nreads,
               input, output >>

\* Layer.send_down of stage k (7 down to 2): process_outgoing, then the
\* call into the layer below.
SenderStep(c) ==
  /\ c \in input.senders
  /\ callers[c].pc \in 2..7
  /\ LET k == callers[c].pc
         r == process_outgoing(k, stack["client"], callers[c].data)
     IN  /\ stack' = [stack EXCEPT !["client"] = r.st]
         /\ callers' = [callers EXCEPT ![c].pc = k - 1,
                                       ![c].data = r.out,
                                       ![c].trace = Append(@, k)]
  /\ UNCHANGED << wire, running, driver >>
  /\ ThreadUnchanged

\* Mutant: the frame is written with two calls, header first.
SenderWrite_split(c) ==
  /\ c \in input.senders
  /\ callers[c].pc \in {1, -1}
  /\ running["client"]
  /\ LET frame == Physical_process_outgoing(callers[c].data)
     IN  IF callers[c].pc = 1
         THEN /\ wire' = [wire EXCEPT !["server"] = @ \o SubSeq(frame, 1, 3)]
              /\ callers' = [callers EXCEPT ![c].pc = -1, ![c].trace = Append(@, 1)]
         ELSE /\ wire' = [wire EXCEPT !["server"] = @ \o SubSeq(frame, 4, Len(frame))]
              /\ callers' = [callers EXCEPT ![c].pc = 0, ![c].writes = @ + 1]
  /\ UNCHANGED << stack, running, driver >>
  /\ ThreadUnchanged

\* PhysicalLayer.send_down with the flag set: process_outgoing, one
\* sendall of the frame.
SenderWrite(c) ==
  /\ c \in input.senders
  /\ callers[c].pc = 1
  /\ running["client"]
  /\ wire' = [wire EXCEPT !["server"] = @ \o Physical_process_outgoing(callers[c].data)]
  /\ callers' = [callers EXCEPT ![c].pc = 0,
                                ![c].trace = Append(@, 1),
                                ![c].writes = @ + 1]
  /\ UNCHANGED << stack, running, driver >>
  /\ ThreadUnchanged

\* PhysicalLayer.send_down with the flag clear: "Connection is closed" is
\* raised, cleanup called, the exception re-raised (-2: the call failed).
SenderFails(c) ==
  /\ c \in input.senders
  /\ callers[c].pc = 1
  /\ ~ running["client"]
  /\ callers' = [callers EXCEPT ![c].pc = -2]
  /\ driver' = [driver EXCEPT !["client"] =
                  [cleanup(@) EXCEPT !.send_failures = @ + 1]]
  /\ UNCHANGED << stack, wire, running >>
  /\ ThreadUnchanged

\* Mutant: the Reliability stage keeps one counter for both directions (seq
\* follows expected_seq).
ReceiverStep_shared ==
  /\ callers["rx"].pc \in 2..7
  /\ LET rx == callers["rx"]
         k == rx.pc
         r == process_incoming("osi", k, stack["client"], rx.data)
         ends == r.out = None \/ r.out = << >> \/ k = 7
         decision == IF r.out = None \/ r.out = << >> THEN k ELSE 8
         more == rx.index < Len(input.incoming)
     IN  /\ stack' = [stack EXCEPT !["client"] =
                        [r.st EXCEPT !.transport.seq = r.st.transport.expected_seq]]
         /\ callers' =
              [callers EXCEPT !["rx"] =
                 IF ~ ends THEN [rx EXCEPT !.pc = k + 1, !.data = r.out]
                 ELSE IF more
                 THEN [rx EXCEPT !.pc = 2,
                                 !.data = ServerPayload(input.incoming[rx.index + 1]),
                                 !.index = rx.index + 1,
                                 !.decisions = Append(@, decision)]
                 ELSE [rx EXCEPT !.pc = 0, !.decisions = Append(@, decision)]]
  /\ UNCHANGED << wire, running, driver >>
  /\ ThreadUnchanged

\* Layer.receive_up of stage k (2 up to 7) on the payload being dispatched:
\* process_incoming; on b'' or None the propagation stops (the payload is
\* dropped at k), at stage 7 it ends (decision 8: accepted); listen then
\* dispatches the next payload.
ReceiverStep ==
  /\ callers["rx"].pc \in 2..7
  /\ LET rx == callers["rx"]
         k == rx.pc
         r == process_incoming("osi", k, stack["client"], rx.data)
         ends == r.out = None \/ r.out = << >> \/ k = 7
         decision == IF r.out = None \/ r.out = << >> THEN k ELSE 8
         more == rx.index < Len(input.incoming)
     IN  /\ stack' = [stack EXCEPT !["client"] = r.st]
         /\ callers' =
              [callers EXCEPT !["rx"] =
                 IF ~ ends THEN [rx EXCEPT !.pc = k + 1, !.data = r.out]
                 ELSE IF more
                 THEN [rx EXCEPT !.pc = 2,
                                 !.data = ServerPayload(input.incoming[rx.index + 1]),
                                 !.index = rx.index + 1,
                                 !.decisions = Append(@, decision)]
                 ELSE [rx EXCEPT !.pc = 0, !.decisions = Append(@, decision)]]
  /\ UNCHANGED << wire, running, driver >>
  /\ ThreadUnchanged

\* The owner of the client's stack calls cleanup.
ThreadCleanup ==
  /\ running["client"]
  /\ running' = [running EXCEPT !["client"] = FALSE]
  /\ driver' = [driver EXCEPT !["client"] = cleanup(@)]
  /\ UNCHANGED << stack, wire, callers >>
  /\ ThreadUnchanged

ThreadNext ==
  \/ \E c \in Senders : SenderStep(c)
  \/ \E c \in Senders : SenderWrite(c)
  \/ \E c \in Senders : SenderFails(c)
  \/ ReceiverStep
  \/ ThreadCleanup

SpecThreads == ThreadInit /\ [][ThreadNext]_vars

\* The sequence number in the Reliability header of what is handed to the
\* Framer: after the 12-byte Addressing header and the 10-byte Routing header.
SeqOfFrame(data) == (256 * data[23]) + data[24]

\* The stages from Application (7) down to stage k, in call order.
StagesDownTo(k) == [i \in 1..(8 - k) |-> 8 - i]

\* The sender threads whose send_down call has returned.
Returned == {c \in input.senders : callers[c].pc = 0}

RECURSIVE FramedLength(_)
\* The number of bytes the frames of these payloads take on the socket.
FramedLength(payloads) ==
  IF payloads = << >> THEN 0
  ELSE 3 + Len(Head(payloads)) + FramedLength(Tail(payloads))

\* The bytes on the socket are whole frames, one per returned call, each
\* carrying what that call handed to the Framer.
WholeFramesOnSocket ==
  LET onwire == FrontFrames(wire["server"])
      handed == [c \in Returned |-> callers[c].data]
  IN  /\ Len(onwire) = Cardinality(Returned)
      /\ {onwire[i] : i \in 1..Len(onwire)} = {handed[c] : c \in Returned}
      /\ \A i \in 1..Len(onwire) : \A j \in 1..Len(onwire) :
           onwire[i] = onwire[j] => i = j
      /\ \E order \in [1..Len(onwire) -> Returned] :
           /\ \A i \in 1..Len(onwire) : onwire[i] = handed[order[i]]
           /\ Len(wire["server"]) = FramedLength(onwire)

SendPathError ==
  \E c \in input.senders : callers[c].pc = -2 /\ callers[c].trace = StagesDownTo(2)

(***************************************************************************)
(* C24: a preamble value in front of a frame.                              *)
(***************************************************************************)
\* The stream of a framing run from the first preamble value on (empty when
\* it holds none).
FromFirstPreamble ==
  LET stream == input.noise \o Frames(input.payloads)
      hits == {i \in 1..Len(stream) : stream[i] = PREAMBLE}
  IN  IF hits = {} THEN << >>
      ELSE SubSeq(stream, CHOOSE i \in hits : \A h \in hits : i <= h, Len(stream))

\* The noise in front of a frame holds the preamble value.
PreambleInNoise ==
  /\ input.payloads # << >>
  /\ \E i \in 1..Len(input.noise) : input.noise[i] = PREAMBLE

\* C24: when the bytes in front of a well-formed frame hold the value 0xAA,
\* listen takes the first 0xAA as the start of a frame and the two bytes
\* after it as its length: the first frame it extracts is those 3 + length
\* bytes, and while fewer than that have arrived nothing is extracted or
\* dispatched, so that the well-formed frame behind is consumed as the body
\* of the false frame.
C24_FalseFrameStart ==
  PreambleInNoise =>
    LET s == FromFirstPreamble
        length == (256 * s[2]) + s[3]
    IN  /\ extracted["server"] # << >> =>
             /\ Len(s) >= 3 + length
             /\ extracted["server"][1] = SubSeq(s, 1, 3 + length)
        /\ (Len(s) < 3 \/ Len(s) < 3 + length) =>
             /\ extracted["server"] = << >>
             /\ dispatched["server"] = << >>
             /\ wire["server"] = << >> => buffer["server"] = s

\* The stream 0xAA, then the frame of payload 0x01, was read to its end and
\* the peer closed: the frame's bytes sit in the buffer as the body of a
\* frame of length 0xAA00, and its payload was not dispatched.
C24_Witness ==
  /\ input.noise = << PREAMBLE >>
  /\ input.payloads = << << 1 >> >>
  /\ wire["server"] = << >>
  /\ ~ running["server"]
  /\ buffer["server"] = << PREAMBLE, PREAMBLE, 0, 1, 1 >>
  /\ dispatched["server"] = << >>

(***************************************************************************)
(* Wrap runs: the client's Reliability stage emits segment after segment   *)
(* from fresh counters, the server's Reliability stage is handed each of   *)
(* them, once round the whole sequence space; the first segment of a run   *)
(* may be lost on the way.                                                 *)
(***************************************************************************)
WrapExchanges == SeqModulus + 2

\* The payload of the k-th segment.
WrapPayload(k) == PackI(k)

WrapInit ==
  /\ variant = "osi"
  /\ input \in [lose_first : BOOLEAN, seq : {0}, expected_seq : {1},
                accepted : {0}, reason : {"none"}]
  /\ stack = [side \in Sides |-> create(variant, side)]
  /\ wire = PerSide(<< >>)
  /\ buffer = PerSide(<< >>)
  /\ running = PerSide(TRUE)
  /\ extracted = PerSide(<< >>)
  /\ dispatched = PerSide(<< >>)
  /\ calls = PerSide(<< >>)
  /\ sent = PerSide(<< >>)
  /\ nreads = 0
  /\ output = << >>
  /\ driver = [side \in Sides |-> Connected(side)]
  /\ callers = NoCallers

WrapUnchanged ==
  UNCHANGED << variant, wire, buffer, running, extracted, dispatched, calls,
               sent, driver, callers >>

\* The client's process_outgoing emits the next segment and the server's
\* process_incoming is handed it.
WrapExchange ==
  /\ nreads < WrapExchanges
  /\ ~ (nreads = 0 /\ input.lose_first)
  /\ LET s == Transport_process_outgoing(stack["client"].transport,
                                         WrapPayload(nreads + 1))
         r == Transport_process_incoming(stack["server"].transport, s.out)
     IN  /\ stack' = [stack EXCEPT !["client"].transport = s.self,
                                   !["server"].transport = r.self]
         /\ output' = r.out
         /\ input' = [input EXCEPT
                        !.seq = s.self.seq,
                        !.expected_seq = stack["server"].transport.expected_seq,
                        !.accepted = IF r.out # << >> THEN @ + 1 ELSE @,
                        !.reason = Transport_rejection(stack["server"].transport, s.out)]
  /\ nreads' = nreads + 1
  /\ WrapUnchanged

\* The client's process_outgoing emits the first segment, which never
\* reaches the server's Reliability stage.
WrapLoss ==
  /\ nreads = 0
  /\ input.lose_first
  /\ LET s == Transport_process_outgoing(stack["client"].transport, WrapPayload(1))
     IN  /\ stack' = [stack EXCEPT !["client"].transport = s.self]
         /\ input' = [input EXCEPT
                        !.seq = s.self.seq,
                        !.expected_seq = stack["server"].transport.expected_seq,
                        !.reason = "lost"]
  /\ output' = << >>
  /\ nreads' = nreads + 1
  /\ WrapUnchanged

WrapNext == WrapExchange \/ WrapLoss

SpecWrap == WrapInit /\ [][WrapNext]_vars

\* A run in which no segment is lost.
Lossless == ~ input.lose_first

\* C27: the sender's seq and the receiver's expected_seq stay in 0..65535
\* and wrap from 65535 to 0; from fresh counters and with no loss the k-th
\* segment emitted is the k-th accepted, for every k up to and past the
\* wrap, and after every accepted segment expected_seq = (seq + 1) mod 65536.
C27_WrapAround ==
  /\ \A side \in Sides :
       /\ stack[side].transport.seq \in 0..(SeqModulus - 1)
       /\ stack[side].transport.expected_seq \in 0..(SeqModulus - 1)
  /\ (Lossless /\ nreads > 0) =>
       /\ output = WrapPayload(nreads)
       /\ input.accepted = nreads
       /\ input.reason = "none"
       /\ stack["client"].transport.seq = nreads % SeqModulus
       /\ stack["server"].transport.expected_seq
            = (stack["client"].transport.seq + 1) % SeqModulus

\* The segment emitted under sequence number 0, the 65536th of a lossless
\* run, was accepted: the sender's counter went from 65535 to 0 and the
\* receiver's from 0 to 1.
C27_Witness ==
  /\ Lossless
  /\ nreads = SeqModulus
  /\ input.seq = 0
  /\ input.expected_seq = 0
  /\ stack["client"].transport.seq = 0
  /\ stack["server"].transport.expected_seq = 1
  /\ output = WrapPayload(SeqModulus)

\* C26: after a segment of the sender did not reach the receiver's
\* Reliability stage, every segment the sender emits afterwards is dropped
\* there for sequence mismatch and expected_seq stays where it was, until
\* the sender's sequence number has wrapped round to expected_seq; that
\* segment is accepted.
C26_NoRecovery ==
  (input.lose_first /\ nreads >= 1) =>
    /\ nreads <= SeqModulus =>
         /\ input.accepted = 0
         /\ output = << >>
         /\ stack["server"].transport.expected_seq = 1
         /\ nreads >= 2 => input.reason = "sequence" /\ input.seq # input.expected_seq
    /\ nreads = SeqModulus + 1 =>
         /\ input.seq = input.expected_seq
         /\ input.reason = "none"
         /\ input.accepted = 1
         /\ output = WrapPayload(nreads)

\* The first segment was lost and 65535 segments after it were dropped.
C26_Witness ==
  /\ input.lose_first
  /\ nreads = SeqModulus
  /\ input.reason = "sequence"
  /\ input.seq = 0
  /\ stack["server"].transport.expected_seq = 1
  /\ input.accepted = 0

\* The sender's sequence number is back at expected_seq: the segment is
\* accepted.
RecoveredAtWrap ==
  /\ input.lose_first
  /\ nreads = SeqModulus + 1
  /\ input.accepted = 1

(***************************************************************************)
(* Segment runs: the server's TransportLayer.process_incoming, its         *)
(* expected_seq at the start or next to the wrap, handed segments that     *)
(* arrive whole, with a damaged checksum or cut short.                     *)
(***************************************************************************)
MaxDeliveries == 2

\* expected_seq after no, 65534 and 65535 accepted segments.
ExpectedStarts == {1, SeqModulus - 1, 0}

\* Sequence numbers of the segments handed over.
DeliveredSeqs == {0, 1, 2, SeqModulus - 2, SeqModulus - 1}

Fates == {"whole", "damaged", "short"}

\* The first seven bytes of a segment.
CutShort(segment) == SubSeq(segment, 1, 7)

SegmentInit ==
  /\ variant = "osi"
  /\ \E expected_seq \in ExpectedStarts :
       stack = [side \in Sides |->
                  [create(variant, side) EXCEPT !.transport.expected_seq =
                     IF side = "server" THEN expected_seq ELSE @]]
  /\ wire = PerSide(<< >>)
  /\ buffer = PerSide(<< >>)
  /\ running = PerSide(TRUE)
  /\ extracted = PerSide(<< >>)
  /\ dispatched = PerSide(<< >>)
  /\ calls = PerSide(<< >>)
  /\ sent = PerSide(<< >>)
  /\ nreads = 0
  /\ input = << >>
  /\ output = << >>
  /\ driver = [side \in Sides |-> Connected(side)]
  /\ callers = NoCallers

SegmentDeliver(seq, data, fate) ==
  /\ nreads < MaxDeliveries
  /\ LET segment == IF fate = "whole" THEN Segment(seq, data)
                    ELSE IF fate = "damaged" THEN Damaged(Segment(seq, data))
                    ELSE CutShort(Segment(seq, data))
         r == Transport_process_incoming(stack["server"].transport, segment)
     IN  /\ stack' = [stack EXCEPT !["server"].transport = r.self]
         /\ output' = r.out
         /\ input' = [seq |-> seq, payload |-> data, fate |-> fate,
                      expected_seq |-> stack["server"].transport.expected_seq,
                      reason |-> Transport_rejection(stack["server"].transport, segment)]
  /\ nreads' = nreads + 1
  /\ UNCHANGED << variant, wire, buffer, running, extracted, dispatched, calls, sent,
                  driver, callers >>

SegmentNext ==
  \E seq \in DeliveredSeqs, data \in SegmentPayloads, fate \in Fates :
    SegmentDeliver(seq, data, fate)

SpecSegments == SegmentInit /\ [][SegmentNext]_vars

\* The last segment passed the checksum test and the sequence test.
PassedBoth == input.fate = "whole" /\ input.seq = input.expected_seq

\* C25: expected_seq advances by exactly one modulo 65536 when and only when
\* the segment passes both the checksum test and the sequence test; a
\* segment shorter than 8 bytes, one with a wrong checksum and one with
\* another sequence number each leave expected_seq as it was and return
\* nothing; the checksum is tested before the sequence number, so a damaged
\* segment is turned away at the checksum test whatever its number.
C25_ExpectedSeqAdvance ==
  nreads > 0 =>
    LET expected_seq == stack["server"].transport.expected_seq
    IN  /\ PassedBoth <=> expected_seq = (input.expected_seq + 1) % SeqModulus
        /\ PassedBoth => output = input.payload /\ input.reason = "none"
        /\ ~ PassedBoth =>
             /\ expected_seq = input.expected_seq
             /\ output = << >>
        /\ input.fate = "short" => input.reason = "short"
        /\ input.fate = "damaged" => input.reason = "checksum"
        /\ (input.fate = "whole" /\ input.seq # input.expected_seq) =>
             input.reason = "sequence"

\* A first segment was turned away with expected_seq at 65535, then the
\* whole segment numbered 65535 moved expected_seq from 65535 to 0.
C25_Witness ==
  /\ nreads = 2
  /\ PassedBoth
  /\ input.seq = SeqModulus - 1
  /\ stack["server"].transport.expected_seq = 0
  /\ output = << 65 >>

\* A damaged segment that carries the expected number leaves expected_seq.
DamagedExpectedRejected ==
  /\ nreads > 0
  /\ input.fate = "damaged"
  /\ input.seq = input.expected_seq
  /\ input.reason = "checksum"
  /\ stack["server"].transport.expected_seq = input.expected_seq

(***************************************************************************)
(* C28: the two directions of one stack in the thread runs.                *)
(***************************************************************************)
RECURSIVE SequentialDecisions(_, _, _)
\* The stages at which receive_up, called on the payloads one after the
\* other with no other thread running, drops them (8: delivered), from the
\* i-th payload on.
SequentialDecisions(st, incoming, i) ==
  IF i > Len(incoming) THEN << >>
  ELSE << DropStage(st, ServerPayload(incoming[i]), 2) >>
       \o SequentialDecisions(
            receive_up_osi(1, st, ServerPayload(incoming[i]), << >>).st, incoming, i + 1)

\* What the thread runs show at any moment: the accept/drop decisions of the
\* listen thread are those of receive_up run alone on a fresh stack, and
\* what a single sender hands to the Framer is what send_down run alone on a
\* fresh stack hands to it, sequence numbers included.
SameAsOneAfterTheOther ==
  LET fresh == create("osi", "client")
      alone == SequentialDecisions(fresh, input.incoming, 1)
      rx == callers["rx"]
  IN  /\ IsPrefix(rx.decisions, alone)
      /\ rx.pc = 0 => rx.decisions = alone
      /\ input.senders = {"t1"} =>
           (callers["t1"].pc \in {0, 1, -2} =>
              /\ callers["t1"].data = send_down(7, fresh, SenderText("t1")).out
              /\ SeqOfFrame(callers["t1"].data) = 1)

\* A step of a sender thread leaves expected_seq, a step of the listen
\* thread leaves the Reliability stage's seq and the Session stage's
\* outbound counter.
DirectionsDisjoint ==
  /\ (\E c \in input.senders : callers'[c] # callers[c]) =>
       stack'["client"].transport.expected_seq = stack["client"].transport.expected_seq
  /\ callers'["rx"] # callers["rx"] =>
       /\ stack'["client"].transport.seq = stack["client"].transport.seq
       /\ stack'["client"].session.sequence = stack["client"].session.sequence

\* C28: on one stack, process_outgoing of no stage changes the Reliability
\* stage's expected_seq and process_incoming of no stage changes its seq or
\* the Session stage's outbound counter; in every interleaving of one
\* sender thread with the listen thread the accept/drop decisions and the
\* emitted sequence numbers are those of running the two one after the
\* other.
C28_DisjointDirections ==
  [] SameAsOneAfterTheOther /\ [][DirectionsDisjoint]_vars

\* The sender thread is between the Reliability and the Routing stage (its
\* segment numbered 1) while the listen thread, having dropped the peer's
\* second segment at the Reliability stage, is handing the first one to the
\* Session stage.
C28_Witness ==
  /\ input.senders = {"t1"}
  /\ input.incoming = << 2, 1 >>
  /\ callers["t1"].pc = 3
  /\ callers["rx"].pc = 5
  /\ callers["rx"].decisions = << 4 >>
  /\ stack["client"].transport.seq = 1
  /\ stack["client"].transport.expected_seq = 2
  /\ stack["client"].session.sequence = 1

(***************************************************************************)
(* Truncated runs: listen fed a stream of frames, a noise byte in front or *)
(* not, that the peer closes at a frame boundary or in the middle of the   *)
(* last frame.                                                             *)
(***************************************************************************)
MaxCut == 3

\* The bytes the peer wrote before it closed: the stream less its last
\* cut bytes.
Truncated(in) ==
  LET stream == in.noise \o Frames(in.payloads)
  IN  SubSeq(stream, 1, Len(stream) - Min(in.cut, Len(stream)))

TruncatedInputs ==
  [noise    : SeqsUpTo(NoiseBytes, 1),
   payloads : SeqsUpTo(SeqsUpTo(PayloadBytes, MaxPayload), MaxFrames),
   cut      : 0..MaxCut]

TruncatedInit ==
  /\ variant \in Variants
  /\ input \in TruncatedInputs
  /\ stack = [side \in Sides |-> create(variant, side)]
  /\ wire = [side \in Sides |-> IF side = "server" THEN Truncated(input) ELSE << >>]
  /\ buffer = PerSide(<< >>)
  /\ running = PerSide(TRUE)
  /\ extracted = PerSide(<< >>)
  /\ dispatched = PerSide(<< >>)
  /\ calls = PerSide(<< >>)
  /\ sent = PerSide(<< >>)
  /\ nreads = 0
  /\ output = << >>
  /\ driver = [side \in Sides |-> Connected(side)]
  /\ callers = NoCallers

TruncatedNext ==
  \/ \E n \in 1..Len(wire["server"]) : FramerRead(n)
  \/ FramerEOF

SpecTruncated == TruncatedInit /\ [][TruncatedNext]_vars

\* The bytes read so far.
ReadSoFar ==
  SubSeq(Truncated(input), 1, Len(Truncated(input)) - Len(wire["server"]))

\* The bytes b from the first preamble value on.
FromPreamble(b) ==
  LET hits == {i \in 1..Len(b) : b[i] = PREAMBLE}
  IN  IF hits = {} THEN << >>
      ELSE SubSeq(b, CHOOSE i \in hits : \A h \in hits : i <= h, Len(b))

RECURSIVE Accounted(_, _, _)
\* The bytes b are, in this order: the frames, each at the front of what is
\* left once the bytes before a preamble value are discarded, and then the
\* bytes rest.
Accounted(b, frames, rest) ==
  IF frames = << >> THEN rest = b \/ rest = FromPreamble(b)
  ELSE LET front == FromPreamble(b)
           frame == Head(frames)
       IN  /\ IsPrefix(frame, front)
           /\ Accounted(SubSeq(front, Len(frame) + 1, Len(front)), Tail(frames), rest)

\* Every frame taken out of the buffer is a 3-byte header (preamble,
\* big-endian L) and exactly L bytes, all of them among the bytes read; what
\* was dispatched are the L bytes of those frames; the bytes still in the
\* buffer belong to none of them.
WholeFramesDispatched ==
  /\ \A i \in 1..Len(extracted["server"]) :
       LET frame == extracted["server"][i]
       IN  /\ Len(frame) >= 3
           /\ frame[1] = PREAMBLE
           /\ Len(frame) = 3 + (256 * frame[2]) + frame[3]
  /\ dispatched["server"] = NonEmpty(PayloadsOf(extracted["server"]))
  /\ Accounted(ReadSoFar, extracted["server"], buffer["server"])

\* Once the loop has ended nothing more is dispatched.
NothingAfterClose ==
  ~ running["server"] => dispatched'["server"] = dispatched["server"]

\* C29: every payload listen dispatches is exactly the L bytes behind a
\* 3-byte header (0xAA, big-endian L) at the front of the receive buffer,
\* dispatched only when all 3 + L bytes have been read; the bytes of a frame
\* that is incomplete when the peer closes stay undispatched.
C29_NoPartialDispatch ==
  [] WholeFramesDispatched /\ [][NothingAfterClose]_vars

\* Two frames were written, the second without its last byte, and the peer
\* closed: the first payload was dispatched, the bytes of the second sit in
\* the buffer.
C29_Witness ==
  /\ input.noise = << >>
  /\ input.payloads = << << 1 >>, << PREAMBLE >> >>
  /\ input.cut = 1
  /\ ~ running["server"]
  /\ dispatched["server"] = << << 1 >> >>
  /\ buffer["server"] = << PREAMBLE, 0, 1 >>

(***************************************************************************)
(* Aligned runs: listen fed nothing but frames built by                    *)
(* PhysicalLayer.process_outgoing, back to back, among them a frame whose  *)
(* length bytes and payload bytes all hold the preamble value, read in     *)
(* chunks of every size.                                                   *)
(***************************************************************************)
MaxAlignedFrames == 2
MaxReadsCounted == 3

\* n bytes of the preamble value: for n = 0xAA the frame is AA 00 AA AA ...
Preambles(n) == [i \in 1..n |-> PREAMBLE]

AlignedPayloads ==
  {<< >>, << 1 >>, << PREAMBLE >>, << PREAMBLE, 0, 1 >>, Preambles(PREAMBLE)}

AlignedInit ==
  /\ variant \in Variants
  /\ input \in [payloads : SeqsUpTo(AlignedPayloads, MaxAlignedFrames)]
  /\ stack = [side \in Sides |-> create(variant, side)]
  /\ wire = [side \in Sides |->
               IF side = "server" THEN Frames(input.payloads) ELSE << >>]
  /\ buffer = PerSide(<< >>)
  /\ running = PerSide(TRUE)
  /\ extracted = PerSide(<< >>)
  /\ dispatched = PerSide(<< >>)
  /\ calls = PerSide(<< >>)
  /\ sent = PerSide(<< >>)
  /\ nreads = 0
  /\ output = << >>
  /\ driver = [side \in Sides |-> Connected(side)]
  /\ callers = NoCallers

\* A read of n bytes by the server's listen; the reads are counted up to
\* MaxReadsCounted.
AlignedRead(n) ==
  /\ ListenChunk("server", n)
  /\ nreads' = Min(nreads + 1, MaxReadsCounted)

AlignedNext ==
  \/ \E n \in 1..Len(wire["server"]) : AlignedRead(n)
  \/ FramerEOF

SpecAligned == AlignedInit /\ [][AlignedNext]_vars

\* C30: when the stream is well-formed frames back to back from a frame
\* boundary, whatever the payloads hold (payload bytes and length bytes
\* equal to 0xAA included) and however the stream is split into reads, the
\* non-empty payloads listen dispatches are, in order, the non-empty
\* payloads that were framed: a prefix of them at any time, all of them
\* once the stream is read.
C30_PayloadTransparency ==
  /\ IsPrefix(dispatched["server"], NonEmpty(input.payloads))
  /\ wire["server"] = << >> => dispatched["server"] = NonEmpty(input.payloads)

\* The frame AA 00 AA followed by 170 bytes 0xAA, then the frame of the
\* payload 0xAA, were read in three or more reads and both payloads
\* dispatched.
C30_Witness ==
  /\ input.payloads = << Preambles(PREAMBLE), << PREAMBLE >> >>
  /\ wire["server"] = << >>
  /\ nreads = MaxReadsCounted
  /\ dispatched["server"] = << Preambles(PREAMBLE), << PREAMBLE >> >>

(***************************************************************************)
(* Empty runs: the client's stack is handed the empty data at one of its   *)
(* stages (at the Framer: a frame of length 0), a message may follow, and  *)
(* the server's listen reads the stream in chunks of every size.           *)
(***************************************************************************)
\* The message that may follow.
FollowText == << 65 >>

EmptyInputs == [stage : 1..7, followed : BOOLEAN]

\* The client's stack after send_down of the empty data at the stage, and
\* the frame written.
EmptySent(in) ==
  LET fresh == create("osi", "client")
  IN  IF in.stage = 1
      THEN [st |-> fresh, out |-> Physical_process_outgoing(<< >>)]
      ELSE LET r == send_down(in.stage, fresh, << >>)
           IN  [st |-> r.st, out |-> Physical_process_outgoing(r.out)]

\* The bytes the client writes.
EmptyStream(in) ==
  EmptySent(in).out
  \o (IF in.followed
      THEN Physical_process_outgoing(send_down(7, EmptySent(in).st, FollowText).out)
      ELSE << >>)

EmptyInit ==
  /\ variant = "osi"
  /\ input \in EmptyInputs
  /\ stack = [side \in Sides |-> create(variant, side)]
  /\ wire = [side \in Sides |-> IF side = "server" THEN EmptyStream(input) ELSE << >>]
  /\ buffer = PerSide(<< >>)
  /\ running = PerSide(TRUE)
  /\ extracted = PerSide(<< >>)
  /\ dispatched = PerSide(<< >>)
  /\ calls = PerSide(<< >>)
  /\ sent = PerSide(<< >>)
  /\ nreads = 0
  /\ output = << >>
  /\ driver = [side \in Sides |-> Connected(side)]
  /\ callers = NoCallers

EmptyNext == \E n \in 1..Len(wire["server"]) : Recv("server", n)

SpecEmpty == EmptyInit /\ [][EmptyNext]_vars

\* The stages 2..k, in the order receive_up invokes them.
StagesUpTo(k) == [i \in 1..(k - 1) |-> i + 1]

\* The stage whose process_incoming returns the empty result: the stage the
\* empty data was handed to, the Presentation stage for the empty message.
EmptyStage == Min(input.stage, 6)

\* C31: an empty payload is never handed upward: a frame of length 0 is
\* taken out of the buffer and nothing dispatched; when the decode of a
\* stage returns the empty result, process_incoming of no stage above it is
\* invoked, as after a failed decode; the Application stage never receives
\* the empty message; a message that follows is delivered.
C31_EmptyNeverDelivered ==
  /\ stack["server"].application.received_data \in {None, FollowText}
  /\ \A i \in 1..Len(dispatched["server"]) : dispatched["server"][i] # << >>
  /\ (wire["server"] = << >> /\ ~ input.followed) =>
       /\ buffer["server"] = << >>
       /\ extracted["server"] = << EmptySent(input).out >>
       /\ stack["server"].application.received_data = None
       /\ input.stage = 1 => dispatched["server"] = << >> /\ calls["server"] = << >>
       /\ input.stage >= 2 =>
            /\ Len(dispatched["server"]) = 1
            /\ calls["server"] = StagesUpTo(EmptyStage)
  /\ (wire["server"] = << >> /\ input.followed) =>
       /\ stack["server"].application.received_data = FollowText
       /\ calls["server"] = StagesUpTo(7)

\* The empty message was sent from the Application stage and read: the
\* decode of the Presentation stage returned b'' and the Application stage
\* was not invoked, though the Reliability stage had accepted the segment.
C31_Witness ==
  /\ input.stage = 7
  /\ ~ input.followed
  /\ wire["server"] = << >>
  /\ calls["server"] = << 2, 3, 4, 5, 6 >>
  /\ stack["server"].transport.expected_seq = 2
  /\ stack["server"].application.received_data = None

\* A frame of length 0 was taken out of the buffer without dispatch.
EmptyFrameRemoved ==
  /\ input.stage = 1
  /\ ~ input.followed
  /\ extracted["server"] = << << PREAMBLE, 0, 0 >> >>
  /\ dispatched["server"] = << >>

(***************************************************************************)
(* Buffer runs: listen fed noise and frames, whole or with the last frame  *)
(* truncated, in chunks of every size; and listen 64 full chunks into a    *)
(* frame that declares the largest length and lacks its last byte.         *)
(***************************************************************************)
\* The largest number of bytes the buffer can hold between two reads.
MaxBuffered == MaxFrameLength + 2

\* The full chunks read before the run starts.
ChunksRead == (MaxFrameLength + 1) \div RecvSize

BufferInputs ==
  [noise    : SeqsUpTo(NoiseBytes, MaxNoise),
   payloads : SeqsUpTo(SeqsUpTo(PayloadBytes, MaxPayload), 1),
   cut      : 0..1,
   chunks   : {0}]
  \cup {[noise |-> << >>, payloads |-> << >>, cut |-> 1, chunks |-> ChunksRead]}

\* The bytes the peer has written: the truncated stream, or (chunks read
\* before the run) the frame of MaxFrameLength zero bytes less its last byte.
Written(in) ==
  IF in.chunks = 0 THEN Truncated(in)
  ELSE Truncated([in EXCEPT !.payloads = << Zeros(MaxFrameLength) >>])

\* The bytes of the stream that earlier turns of the loop have read.
AlreadyRead(in) == SubSeq(Written(in), 1, in.chunks * RecvSize)

BufferInit ==
  /\ variant \in Variants
  /\ input \in BufferInputs
  /\ stack = [side \in Sides |-> create(variant, side)]
  /\ wire = [side \in Sides |->
               IF side = "server"
               THEN SubSeq(Written(input), (input.chunks * RecvSize) + 1,
                           Len(Written(input)))
               ELSE << >>]
  /\ buffer = [side \in Sides |->
                 IF side = "server"
                 THEN ExtractFrames(AlreadyRead(input), << >>).buffer
                 ELSE << >>]
  /\ running = PerSide(TRUE)
  /\ extracted = PerSide(<< >>)
  /\ dispatched = PerSide(<< >>)
  /\ calls = PerSide(<< >>)
  /\ sent = PerSide(<< >>)
  /\ nreads = input.chunks
  /\ output = << >>
  /\ driver = [side \in Sides |-> Connected(side)]
  /\ callers = NoCallers

BufferNext ==
  \/ \E n \in 1..Len(wire["server"]) : FramerRead(n)
  \/ FramerEOF

SpecBuffer == BufferInit /\ [][BufferNext]_vars

\* C32: whenever listen is back at recv, the receive buffer is shorter than
\* 3 bytes, or it begins with 0xAA and is shorter than 3 plus the length its
\* bytes 1..2 declare; so it never holds more than 65537 bytes between reads.
C32_BufferInvariant ==
  LET b == buffer["server"]
  IN  /\ \/ Len(b) < 3
         \/ /\ b[1] = PREAMBLE
            /\ Len(b) < 3 + (256 * b[2]) + b[3]
      /\ Len(b) <= MaxBuffered

\* After the 65th read the buffer holds 65537 bytes: a frame declaring 65535
\* bytes, its last byte not written yet.
C32_Witness ==
  /\ nreads = ChunksRead + 1
  /\ Len(buffer["server"]) = MaxBuffered
  /\ SubSeq(buffer["server"], 1, 3) = << PREAMBLE, 255, 255 >>
  /\ wire["server"] = << >>
  /\ dispatched["server"] = << >>

(***************************************************************************)
(* Send-failure runs: the driver runs, and PhysicalLayer.send_down called  *)
(* with data too long for the 2-byte length field.                         *)
(***************************************************************************)
\* Data that cannot be framed.
Unframable == Zeros(MaxFrameLength + 1)

\* PhysicalLayer.send_down(Unframable) with the running flag set:
\* process_outgoing raises struct.error, the handler calls cleanup and
\* re-raises.
SendUnframable(side) ==
  /\ driver[side].pc \in {"listening", "reading"}
  /\ running[side]
  /\ Physical_process_outgoing(Unframable) = StructError
  /\ running' = [running EXCEPT ![side] = FALSE]
  /\ driver' = [driver EXCEPT ![side] =
                  [cleanup(@) EXCEPT !.send_failures = @ + 1, !.raised = "struct"]]
  /\ DriverUnchanged

SendFailNext ==
  \/ DriverNext
  \/ \E side \in Sides : SendUnframable(side)

SpecSendFail == DriverInit /\ [][SendFailNext]_vars

\* On a side where a send_down has failed the flag is clear and the
\* connection and the socket are closed.
FailedSendCleanedUp ==
  \A side \in Sides : driver[side].send_failures > 0 => CleanedUp(side)

\* A send_down that fails writes nothing; after a failed send_down the
\* listen thread enters recv no more, and every send_down fails.
AfterFailedSend ==
  \A side \in Sides :
    /\ driver'[side].send_failures > driver[side].send_failures =>
         /\ wire'[Peer(side)] = wire[Peer(side)]
         /\ sent'[side] = sent[side]
    /\ driver[side].send_failures > 0 =>
         /\ driver[side].pc = "listening" => driver'[side].pc \in {"listening", "exited"}
         /\ stack'[side].transport.seq # stack[side].transport.seq =>
              /\ driver'[side].send_failures = driver[side].send_failures + 1
              /\ wire'[Peer(side)] = wire[Peer(side)]

WriteErrorCleanedUp ==
  \E side \in Sides :
    /\ driver[side].send_failures = 1
    /\ driver[side].raised = "none"
    /\ driver[side].stop = "none"
    /\ driver[side].pc = "reading"
    /\ CleanedUp(side)

(***************************************************************************)
(* Stopped runs: the driver runs, and application.send_down called on a    *)
(* stack whose start has not been called yet.                              *)
(***************************************************************************)
\* application.send_down(DriverText) before start: the flag was never set,
\* PhysicalLayer.send_down raises "Connection is closed", calls cleanup
\* (which closes the new socket) and re-raises.
SendBeforeStart(side) ==
  /\ driver[side].pc = "created"
  /\ ~ running[side]
  /\ driver[side].send_failures = 0
  /\ stack' = [stack EXCEPT ![side] = send_down(7, stack[side], DriverText).st]
  /\ driver' = [driver EXCEPT ![side] =
                  [cleanup(@) EXCEPT !.send_failures = @ + 1]]
  /\ UNCHANGED << variant, running, wire, sent, buffer, extracted, dispatched, calls,
                  nreads, input, output, callers >>

StoppedNext ==
  \/ DriverNext
  \/ \E side \in Sides : SendBeforeStart(side)

SpecStopped == DriverInit /\ [][StoppedNext]_vars

\* A send_down called on this side with the flag not set raises and writes
\* nothing.
StoppedSendRaises(side) ==
  (/\ ~ running[side]
   /\ stack'[side].transport.seq # stack[side].transport.seq) =>
    /\ driver'[side].send_failures = driver[side].send_failures + 1
    /\ wire' = wire
    /\ sent' = sent
    /\ ~ running'[side]

\* C34: in every state where the running flag is not set (start not called
\* yet, after cleanup, after the peer closed, after a failed setup) a
\* send_down raises to the caller and writes no byte to the socket.
C34_NoWriteAfterStop == [][\A side \in Sides : StoppedSendRaises(side)]_vars

\* The stop signal cleared the server's flag and left its connection open;
\* the send_down that followed raised and wrote nothing.
C34_Witness ==
  /\ driver["server"].stop = "signal"
  /\ driver["server"].send_failures = 1
  /\ stack["server"].transport.seq = 1
  /\ driver["client"].listen_thread
  /\ wire["client"] = << >>
  /\ sent["server"] = << >>

\* A send_down before start raised.
SendBeforeStartRaised ==
  \E side \in Sides :
    /\ driver[side].pc = "created"
    /\ driver[side].send_failures = 1
    /\ wire[Peer(side)] = << >>

(***************************************************************************)
(* C35: the order of the frames of two threads on the socket.              *)
(***************************************************************************)
\* The server's stack after its listen has dispatched the payloads now on
\* its socket, in their order.
PeerAfterDelivery ==
  DeliverAll("osi", create("osi", "server"), FrontFrames(wire["server"]), << >>).st

\* C35: when two callers are inside send_down on one stack at the same
\* time, their frames are written to the socket in the order in which the
\* Reliability stage numbered them, and the peer's Reliability stage
\* accepts both segments.
C35_WireOrder ==
  LET onwire == FrontFrames(wire["server"])
  IN  /\ \A i \in 1..Len(onwire) : \A j \in 1..Len(onwire) :
           i < j => SeqOfFrame(onwire[i]) < SeqOfFrame(onwire[j])
      /\ Returned = Senders =>
           PeerAfterDelivery.transport.expected_seq = 3

\* What holds of two concurrent calls: both frames are written whole and
\* carry the numbers 1 and 2, in one order or the other; the peer accepts
\* both or only the segment numbered 1.
BothWrittenOneAccepted ==
  Returned = Senders =>
    LET onwire == FrontFrames(wire["server"])
    IN  /\ {SeqOfFrame(onwire[i]) : i \in 1..Len(onwire)} = {1, 2}
        /\ PeerAfterDelivery.transport.expected_seq \in {2, 3}
        /\ PeerAfterDelivery.transport.expected_seq = 2
             <=> SeqOfFrame(onwire[1]) = 2

(***************************************************************************)
(* Window runs: the driver runs, and application.send_down called by       *)
(* another thread while start is inside accept, connect or the sleep       *)
(* between two connect attempts.                                           *)
(***************************************************************************)
\* start has set the flag and has not returned or raised yet.
InSetup(side) == driver[side].pc \in {"accepting", "connecting", "sleeping"}

\* Mutant: the failing send_down re-raises without cleanup.
WindowSend_bare(side) ==
  /\ InSetup(side)
  /\ running[side]
  /\ driver[side].send_failures = 0
  /\ stack' = [stack EXCEPT ![side] = send_down(7, stack[side], DriverText).st]
  /\ driver' = [driver EXCEPT ![side].send_failures = @ + 1, ![side].stop = "send"]
  /\ UNCHANGED << variant, running, wire, sent, buffer, extracted, dispatched, calls,
                  nreads, input, output, callers >>

\* application.send_down(DriverText) during the setup: the flag is set, so
\* the test of PhysicalLayer.send_down passes; the server's conn is None and
\* the client's socket is not connected, so sendall raises; the handler
\* calls cleanup and re-raises.
WindowSend(side) ==
  /\ InSetup(side)
  /\ running[side]
  /\ driver[side].send_failures = 0
  /\ stack' = [stack EXCEPT ![side] = send_down(7, stack[side], DriverText).st]
  /\ running' = [running EXCEPT ![side] = FALSE]
  /\ driver' = [driver EXCEPT ![side] =
                  [cleanup(@) EXCEPT !.send_failures = @ + 1, !.stop = "send"]]
  /\ UNCHANGED << variant, wire, sent, buffer, extracted, dispatched, calls,
                  nreads, input, output, callers >>

\* connect on a socket that was closed before the call raises OSError, which
\* the retry loop does not catch.
ClosedSocketRaises ==
  (driver["client"].pc = "connecting" /\ driver["client"].socket = "closed") =>
    driver'["client"].pc # "sleeping"

WindowNext ==
  \/ DriverNext /\ ClosedSocketRaises
  \/ \E side \in Sides : WindowSend(side)

SpecWindow == DriverInit /\ [][WindowNext]_vars

\* C36: start sets the running flag before accept or connect has completed;
\* a send_down of another thread in that window passes the test of the
\* flag and fails, its cleanup clears the flag and closes the listening or
\* connecting socket, and the setup in progress is aborted: it never
\* completes (no listen thread is started on that side).
C36_SetupWindow ==
  \A side \in Sides :
    driver[side].stop = "send" =>
      /\ ~ running[side]
      /\ sent[side] = << >>
      /\ ~ driver[side].listen_thread

\* After a send_down failed in the window: the flag stays clear, nothing is
\* ever written or read on that side; the server's setup fails; the client's
\* fails too unless start was between two attempts.
WindowClosedState ==
  \A side \in Sides :
    driver[side].stop = "send" =>
      /\ ~ running[side]
      /\ driver[side].send_failures >= 1
      /\ sent[side] = << >>
      /\ wire[Peer(side)] = << >>
      /\ driver[side].pc # "reading"
      /\ side = "server" =>
           /\ driver[side].pc \in {"accepting", "failed"}
           /\ driver[side].socket = "closed"
           /\ ~ driver[side].listen_thread
      /\ (side = "client" /\ driver[side].listen_thread) =>
           /\ driver[side].pc \in {"listening", "exited"}
           /\ driver[side].slept >= RetryDelay

\* The failing send_down itself: called with the flag set during the setup,
\* it leaves the flag clear and the socket closed.
WindowSendStep ==
  \A side \in Sides :
    (driver[side].stop # "send" /\ driver'[side].stop = "send") =>
      /\ InSetup(side)
      /\ running[side]
      /\ ~ running'[side]
      /\ driver'[side].socket = "closed"
      /\ wire' = wire

\* Amended C36: the send_down in the window fails and its cleanup clears the
\* flag and closes the socket; the server's setup and a client's connect in
\* progress then fail, while a client that was sleeping between two
\* attempts makes a new socket and may connect, after which its listen
\* thread finds the flag clear and exits without a read.
C36_SetupWindowAmended == [] WindowClosedState /\ [][WindowSendStep]_vars

\* The client's send_down failed while start slept between two attempts;
\* start then connected on a new socket, and the listen thread has exited.
C36_Witness ==
  /\ driver["client"].stop = "send"
  /\ driver["client"].listen_thread
  /\ driver["client"].pc = "exited"
  /\ driver["client"].sockets = 2
  /\ CleanedUp("client")
  /\ stack["client"].transport.seq = 1

\* The server's send_down failed while start was inside accept; start has
\* raised.
ServerSetupAborted ==
  /\ driver["server"].stop = "send"
  /\ driver["server"].pc = "failed"
  /\ CleanedUp("server")

(***************************************************************************)
(* Cleanup runs: the driver runs, and threads of the caller that execute   *)
(* cleanup one statement at a time, interleaved with each other, with      *)
(* start, with the listen thread and with failing send_down calls.         *)
(***************************************************************************)
MaxCleaners == 2

Cleaners == 1 .. MaxCleaners

\* input names the side whose caller runs cleanup.
CleanupInit ==
  /\ variant = "osi"
  /\ stack = [side \in Sides |-> create(variant, side)]
  /\ wire = PerSide(<< >>)
  /\ buffer = PerSide(<< >>)
  /\ running = PerSide(FALSE)
  /\ extracted = PerSide(<< >>)
  /\ dispatched = PerSide(<< >>)
  /\ calls = PerSide(<< >>)
  /\ sent = PerSide(<< >>)
  /\ nreads = 0
  /\ input \in [side : Sides]
  /\ output = << >>
  /\ driver = PerSide(NewDriver)
  /\ callers = PerSide([t \in Cleaners |-> "idle"])

\* A thread of the caller calls cleanup on a stack that was started.
CleanerCall(side, t) ==
  /\ side = input.side
  /\ callers[side][t] = "idle"
  /\ driver[side].pc # "created"
  /\ callers' = [callers EXCEPT ![side][t] = "clear"]
  /\ UNCHANGED << variant, stack, wire, buffer, running, extracted, dispatched,
                  calls, sent, nreads, input, output, driver >>

\* Mutant: the two close calls are not wrapped in try/except.
CleanerStep_bare(side, t, fails) ==
  /\ callers[side][t] \in {"clear", "conn", "socket"}
  /\ IF callers[side][t] = "clear"
     THEN /\ running' = [running EXCEPT ![side] = FALSE]
          /\ callers' = [callers EXCEPT ![side][t] = "conn"]
          /\ UNCHANGED driver
     ELSE IF callers[side][t] = "conn"
     THEN /\ driver' = [driver EXCEPT ![side].conn =
                          IF @ = "none" THEN "none" ELSE "closed"]
          /\ callers' = [callers EXCEPT ![side][t] =
                           IF fails /\ driver[side].conn # "none"
                           THEN "raised" ELSE "socket"]
          /\ UNCHANGED running
     ELSE /\ driver' = [driver EXCEPT ![side].socket = "closed",
                                      ![side].stop = "cleanup"]
          /\ callers' = [callers EXCEPT ![side][t] =
                           IF fails THEN "raised" ELSE "returned"]
          /\ UNCHANGED running
  /\ UNCHANGED << variant, stack, wire, buffer, extracted, dispatched, calls, sent,
                  nreads, input, output >>

\* One statement of cleanup: self.running.clear(); then, if self.conn is
\* set, self.conn.close(); then self.socket.close().  fails says that the
\* close call raises; both calls are inside try/except: pass.
CleanerStep(side, t, fails) ==
  /\ callers[side][t] \in {"clear", "conn", "socket"}
  /\ IF callers[side][t] = "clear"
     THEN /\ running' = [running EXCEPT ![side] = FALSE]
          /\ callers' = [callers EXCEPT ![side][t] = "conn"]
          /\ UNCHANGED driver
     ELSE IF callers[side][t] = "conn"
     THEN /\ driver' = [driver EXCEPT ![side].conn =
                          IF @ = "none" THEN "none" ELSE "closed"]
          /\ callers' = [callers EXCEPT ![side][t] = "socket"]
          /\ UNCHANGED running
     ELSE /\ driver' = [driver EXCEPT ![side].socket = "closed",
                                      ![side].stop = "cleanup"]
          /\ callers' = [callers EXCEPT ![side][t] = "returned"]
          /\ UNCHANGED running
  /\ UNCHANGED << variant, stack, wire, buffer, extracted, dispatched, calls, sent,
                  nreads, input, output >>

\* start, listen and send_down as in the driver runs; the caller's cleanup
\* is taken statement by statement.
CleanupNext ==
  \/ StartServer
  \/ AcceptSucceeds
  \/ AcceptTimeout
  \/ AcceptRaises
  \/ StartClient
  \/ ConnectSucceeds
  \/ \E e \in {"refused", "timeout"} : ConnectFails(e)
  \/ ConnectRaises
  \/ Retry
  \/ \E side \in Sides : ListenHead(side)
  \/ \E side \in Sides : ReadData(side, Min(RecvSize, Len(wire[side])))
  \/ \E side \in Sides : ReadEOF(side)
  \/ \E side \in Sides : ReadError(side)
  \/ \E side \in Sides, raises \in BOOLEAN : DriverSend(side, raises)
  \/ \E side \in Sides, t \in Cleaners : CleanerCall(side, t)
  \/ \E side \in Sides, t \in Cleaners, fails \in BOOLEAN : CleanerStep(side, t, fails)

SpecCleanup == CleanupInit /\ [][CleanupNext]_vars

\* Some invocation of cleanup has returned on this side: the caller's, the
\* one at the exit of listen, the one of a failing start or of a failing
\* send_down.
CleanupReturned(side) ==
  \/ \E t \in Cleaners : callers[side][t] = "returned"
  \/ driver[side].pc \in {"exited", "failed"}
  \/ driver[side].send_failures > 0
  \/ driver[side].stop = "cleanup"

NoCleanerInside(side) == \A t \in Cleaners : callers[side][t] \in {"idle", "returned"}

\* No invocation raises; after one has returned the flag is clear; once no
\* invocation is in progress and neither start nor a listen thread that has
\* not yet tested the flag is still to call cleanup itself, the socket and
\* the connection are closed; and cleanup applied twice is cleanup applied
\* once.
CleanupSettles ==
  \A side \in Sides :
    /\ \A t \in Cleaners : callers[side][t] # "raised"
    /\ CleanupReturned(side) => ~ running[side]
    /\ (CleanupReturned(side) /\ NoCleanerInside(side) /\ ~ InSetup(side)
          /\ driver[side].pc # "listening") => CleanedUp(side)
    /\ cleanup(cleanup(driver[side])) = cleanup(driver[side])
    /\ CleanedUp(side) => cleanup(driver[side]) = driver[side]

\* Only start sets the flag.
OnlyStartSetsFlag ==
  \A side \in Sides :
    (running'[side] /\ ~ running[side]) =>
      (driver[side].pc = "created" /\ InSetup(side)')

CleanupOvertaken ==
  /\ callers["server"][1] = "returned"
  /\ NoCleanerInside("server")
  /\ driver["server"].conn = "open"
  /\ driver["server"].pc = "listening"
  /\ ~ running["server"]

(***************************************************************************)
(* Session runs: the client's Session stage stamps payloads, and the       *)
(* server's Session stage is handed packets whose headers carry any        *)
(* counter.                                                                *)
(***************************************************************************)
MaxSessionSends == 2
MaxSessionReceives == 3

\* Counters of the delivered headers: repeated, decreasing and skipping
\* values all occur among the sequences over this set.
Counters == {0, 1, 2, 7}

SessionPayloads == {<< >>, << 65 >>}

SessionInit ==
  /\ variant \in Variants
  /\ stack = [side \in Sides |-> create(variant, side)]
  /\ wire = PerSide(<< >>)
  /\ buffer = PerSide(<< >>)
  /\ running = PerSide(TRUE)
  /\ extracted = PerSide(<< >>)
  /\ dispatched = PerSide(<< >>)
  /\ calls = PerSide(<< >>)
  /\ sent = PerSide(<< >>)
  /\ nreads = 0
  /\ input = << >>
  /\ output = << >>
  /\ driver = [side \in Sides |-> Connected(side)]
  /\ callers = NoCallers

\* The client's SessionLayer.process_outgoing(payload); sent keeps what it
\* returned.
SessionSend(payload) ==
  /\ Len(sent["client"]) < MaxSessionSends
  /\ LET r == Session_process_outgoing(stack["client"].session, payload)
     IN  /\ stack' = [stack EXCEPT !["client"].session = r.self]
         /\ sent' = [sent EXCEPT !["client"] = Append(@, r.out)]
  /\ UNCHANGED << variant, wire, buffer, running, extracted, dispatched, calls,
                  nreads, input, output, driver, callers >>

\* The server's SessionLayer.process_incoming on a packet with the header
\* (id, counter); extracted keeps the packets, dispatched what was returned.
\* The method assigns no attribute.
SessionReceive(id, counter, payload) ==
  /\ nreads < MaxSessionReceives
  /\ LET data == PackI(id) \o PackQ(counter) \o payload
         out  == Session_process_incoming(stack["server"].session, data)
     IN  /\ extracted' = [extracted EXCEPT !["server"] = Append(@, data)]
         /\ dispatched' = [dispatched EXCEPT !["server"] = Append(@, out)]
         /\ output' = out
  /\ nreads' = nreads + 1
  /\ UNCHANGED << variant, stack, wire, buffer, running, calls, sent, input,
                  driver, callers >>

SessionNext ==
  \/ \E payload \in SessionPayloads : SessionSend(payload)
  \/ \E id \in {stack["server"].session.session_id,
                stack["server"].session.session_id + 1},
        counter \in Counters, payload \in SessionPayloads :
       SessionReceive(id, counter, payload)

SpecSession == SessionInit /\ [][SessionNext]_vars

\* The counter field of a Session header.
CounterOf(data) == Slice(data, 4, 12)

\* C38: the Session counter is carried but never validated: process_incoming
\* returns the payload of every packet that carries the configured session
\* id, whatever its 8-byte counter and whatever counters came before, and
\* changes no state of the stage; every process_outgoing call increments
\* the counter by exactly one before stamping it into the header.
C38_CounterNotValidated ==
  /\ \A i \in 1 .. Len(extracted["server"]) :
       LET data == extracted["server"][i]
       IN  Slice(data, 0, 4) = PackI(stack["server"].session.session_id) =>
             dispatched["server"][i] = From(data, 12)
  /\ stack["server"].session = create(variant, "server").session
  /\ stack["client"].session.sequence = Len(sent["client"])
  /\ \A i \in 1 .. Len(sent["client"]) :
       /\ CounterOf(sent["client"][i]) = PackQ(i)
       /\ Slice(sent["client"][i], 0, 4) = PackI(stack["client"].session.session_id)

\* Three packets with the configured id and the counters 7, 7, 1 (a skip, a
\* repeat, a decrease), each with a payload, were all accepted, after the
\* client stamped two payloads with 1 and 2.
C38_Witness ==
  /\ Len(extracted["server"]) = 3
  /\ CounterOf(extracted["server"][1]) = PackQ(7)
  /\ CounterOf(extracted["server"][2]) = PackQ(7)
  /\ CounterOf(extracted["server"][3]) = PackQ(1)
  /\ dispatched["server"] = << << 65 >>, << 65 >>, << 65 >> >>
  /\ Len(sent["client"]) = 2
  /\ CounterOf(sent["client"][2]) = PackQ(2)

=============================================================================
